---- MODULE Spec2Model ----
(***************************************************************************)
(* Harvest inbox, LLM ensemble and the Summarize-Harvest use case of the   *)
(* crypto-risk-profiling pipeline.                                         *)
(*                                                                         *)
(* The store is the DuckDB file with the tables url_harvests (the inbox),  *)
(* summarized_articles, rejections and llm_votes.  Every repository method *)
(* opens its own connection, so one method call is one atomic step and the *)
(* Harvest command and the Summarize-Harvest command interleave between    *)
(* calls.  Any repository call may raise (I/O error, lock held by another  *)
(* process); a raising call leaves the store unchanged.                    *)
(***************************************************************************)
EXTENDS Integers, Sequences, FiniteSets, TLC

\* ---------------------------------------------------------------- bounds
MaxUrl == 2            \* distinct URLs 1..MaxUrl
MaxHarvestCalls == 2   \* save_url_harvest calls in one behaviour
MaxBatches == 2        \* process_batch / process_batch_parallel invocations
MaxClients == 1        \* configured ensemble clients 0..MaxClients of the pipeline
MaxVoters == 4         \* clients of an ensemble called on its own 0..MaxVoters
MaxLimit == 2          \* the --limit of a batch
MaxSources == 2        \* news sources of a harvest run
MaxDocs == 2           \* documents one source returns
MaxRetries == 3        \* max_retries of an HTTP client (the default)
MaxBuckets == 2        \* day slices of one GdeltClient.fetch_documents
MaxTime == 11          \* instants 0..MaxTime of a harvest window, TicksPerDay to the UTC day
MaxArticles == 1       \* articles in the answer to one GDELT query
MaxCallers == 3
MaxDays == 3
MaxSnapshots == 3        \* threads that record statistics for one (asset, domain) at once
MaxWorkers == 2        \* worker threads 1..MaxWorkers of the pool of a parallel batch
MaxTasks == 3          \* LLM tasks submitted to the pool
MaxClock == 48         \* the monotonic clock runs 0..MaxClock ticks
MaxOvershoot == 1      \* ticks by which time.sleep may return late

Urls == 1..MaxUrl
Assets == {"BTC", "ETH"}

\* Python's None where an id or a url is optional (ids and urls are >= 1)
None == 0

\* what one ensemble client does with a call: its raw relevance, or it raises
ClientOutcomes == {"True", "False", "None", "raise"}

VARIABLES
    url_harvests,         \* inbox rows [id, url, asset_symbol, discovered_at]
    summarized_articles,  \* rows [id, url, asset_symbol]
    rejections,           \* rows [id, url, asset_symbol, reason, context, model]
    llm_votes,            \* rows [id, url, asset_symbol, model, relevance, harvest_id, article_id]
    uhSeq,                \* url_harvests_seq: last id handed out
    news_domain_stats,    \* rows [asset_symbol, domain, harvested_total, stored_total, llm_accepted, llm_rejected]
    clients,              \* number of clients the EnsembleClient was built with
    harvestCalls,         \* save_url_harvest calls so far (the clock of discovered_at)
    pc,                   \* position of the Summarize-Harvest command
    run,                  \* parameters of the running / last batch
    batch,                \* the rows fetch_url_harvest_batch returned
    cur,                  \* index in batch of the candidate being handled (0: none)
    task,                 \* per candidate: state and result of its LLM call
    article_id,           \* local article_id of the candidate being persisted
    vi,                   \* index of the next vote to save
    cnt,                  \* processed / saved / deleted / errors / rejected_irrelevant
    batches,              \* batches started so far
    trace,                \* per candidate: how its handling ended and the calls that succeeded
    ensembleCall,         \* an EnsembleClient call on its own: what the clients did, what it returned
    limiter,              \* the _RateLimiter of a parallel batch, the monotonic clock and the worker threads
    hrun,                 \* a HarvestUrls.run: its configuration, position, counters and call log
    http,                 \* an HTTP client's retry loop: its settings, position and the requests sent
    llm_call,             \* one summarize_and_score call of an LLM client: its requests and outcome
    gfetch,               \* a GdeltClient.fetch_documents call: its window, day slices, queries and documents
    upserts,              \* threads calling record_harvest / record_llm_decision at once for one (asset, domain)
    factors,              \* ComputeMarketFactors.execute: inputs, rows and the factor table
    rollup,               \* daily rollup of intraday snapshots: input, result
    qbuild,               \* a news adapter building its upstream query
    resolver,             \* GoogleNewsResolver.resolve: configuration, call, result and outcome tags
    urlcheck,             \* is_valid_news_url on its own: a URL text and its verdicts
    retry,                \* repeated process_batch: the fixed limit and the candidates that fail on every attempt
    equiv                 \* process_batch against process_batch_parallel: the fixed outcomes and the sequential result

store == <<url_harvests, summarized_articles, rejections, llm_votes, uhSeq, news_domain_stats>>
harvest == <<harvestCalls>>
proc == <<pc, run, batch, cur, task, article_id, vi, cnt, batches, trace>>
side == <<limiter, hrun, http, llm_call, gfetch, upserts, factors, rollup, qbuild, resolver, urlcheck, retry, equiv>>
exceptLimiter == <<hrun, http, llm_call, gfetch, upserts, factors, rollup, qbuild, resolver, urlcheck, retry, equiv>>
exceptHrun == <<limiter, http, llm_call, gfetch, upserts, factors, rollup, qbuild, resolver, urlcheck, retry, equiv>>
exceptHttp == <<limiter, hrun, llm_call, gfetch, upserts, factors, rollup, qbuild, resolver, urlcheck, retry, equiv>>
exceptLlmCall == <<limiter, hrun, http, gfetch, upserts, factors, rollup, qbuild, resolver, urlcheck, retry, equiv>>
exceptGfetch == <<limiter, hrun, http, llm_call, upserts, factors, rollup, qbuild, resolver, urlcheck, retry, equiv>>
exceptUpserts == <<limiter, hrun, http, llm_call, gfetch, factors, rollup, qbuild, resolver, urlcheck, retry, equiv>>
exceptFactors == <<limiter, hrun, http, llm_call, gfetch, upserts, rollup, qbuild, resolver, urlcheck, retry, equiv>>
exceptRollup == <<limiter, hrun, http, llm_call, gfetch, upserts, factors, qbuild, resolver, urlcheck, retry, equiv>>
exceptQbuild == <<limiter, hrun, http, llm_call, gfetch, upserts, factors, rollup, resolver, urlcheck, retry, equiv>>
exceptResolver == <<limiter, hrun, http, llm_call, gfetch, upserts, factors, rollup, qbuild, urlcheck, retry, equiv>>
exceptUrlcheck == <<limiter, hrun, http, llm_call, gfetch, upserts, factors, rollup, qbuild, resolver, retry, equiv>>
exceptEquiv == <<limiter, hrun, http, llm_call, gfetch, upserts, factors, rollup, qbuild, resolver, urlcheck, retry>>
vars == <<url_harvests, summarized_articles, rejections, llm_votes, uhSeq, news_domain_stats, clients,
          harvestCalls, pc, run, batch, cur, task, article_id, vi, cnt,
          batches, trace, ensembleCall, limiter, hrun, http, llm_call, gfetch, upserts, factors, rollup, qbuild, resolver, urlcheck, retry, equiv>>

\* ---------------------------------------------------------------- helpers
MaxOf(S) == IF S = {} THEN 0 ELSE CHOOSE m \in S : \A x \in S : x <= m

\* the id a table's sequence hands out next (rows of these tables are never deleted)
NextId(table) == MaxOf({r.id : r \in table}) + 1

RECURSIVE CountIf(_, _)
CountIf(s, want) ==
    IF s = <<>> THEN 0
    ELSE (IF Head(s).relevance = want THEN 1 ELSE 0) + CountIf(Tail(s), want)

\* ---------------------------------------------------------------- ensemble
ClientModel(i) == i

_normalize_vote(raw, model) ==
    [model |-> model, relevance |-> IF raw = "True" THEN "True" ELSE "False"]

\* a strict majority, a tie counting as false
_aggregate_relevance_strict(votes) ==
    IF votes = <<>> THEN "False"
    ELSE LET trues == CountIf(votes, "True")
             falses == Len(votes) - trues
         IN  IF trues > falses THEN "True" ELSE "False"

_aggregate_relevance(votes) ==
    IF votes = <<>> THEN "False"
    ELSE LET trues == CountIf(votes, "True")
             falses == Len(votes) - trues
         IN  IF trues >= falses THEN "True" ELSE "False"

\* the loop without its try/except: the first raising client ends the call
RECURSIVE EnsembleLoopNoCatch(_, _, _, _)
EnsembleLoopNoCatch(i, n, outs, acc) ==
    IF i > n THEN acc
    ELSE IF outs[i] = "raise"
         THEN [acc EXCEPT !.calls = Append(@, i), !.raised = TRUE]
         ELSE EnsembleLoopNoCatch(i + 1, n, outs,
                  [acc EXCEPT !.calls = Append(@, i),
                              !.votes = Append(@, _normalize_vote(outs[i], ClientModel(i)))])

\* the loop over self.clients: every client is called; a raising client is
\* logged and contributes no vote
RECURSIVE EnsembleLoop(_, _, _, _)
EnsembleLoop(i, n, outs, acc) ==
    IF i > n THEN acc
    ELSE IF outs[i] = "raise"
         THEN EnsembleLoop(i + 1, n, outs, [acc EXCEPT !.calls = Append(@, i)])
         ELSE EnsembleLoop(i + 1, n, outs,
                  [acc EXCEPT !.calls = Append(@, i),
                              !.votes = Append(@, _normalize_vote(outs[i], ClientModel(i)))])

summarize_and_score(n, outs) ==
    LET r == EnsembleLoop(1, n, outs, [calls |-> <<>>, votes |-> <<>>, raised |-> FALSE])
    IN  [ok |-> ~r.raised,
         relevance |-> _aggregate_relevance(r.votes),
         votes |-> r.votes,
         calls |-> r.calls]

\* result of an LlmPort call that raised
LlmError == [ok |-> FALSE, relevance |-> "None", votes |-> <<>>, calls |-> <<>>]

\* ---------------------------------------------------------------- domain statistics
\* urlparse(url).hostname of a stored URL: several URLs share a host
HostOf(u) == (u + 1) \div 2

StatsRow(a, d) == {r \in news_domain_stats : r.asset_symbol = a /\ r.domain = d}

\* INSERT INTO news_domain_stats ... VALUES (?, ?, 0, 0, 0, 0) ON CONFLICT DO NOTHING
InsertZeroRow(stats, a, d) ==
    LET have == {r \in stats : r.asset_symbol = a /\ r.domain = d}
        zero == [asset_symbol |-> a, domain |-> d, harvested_total |-> 0, stored_total |-> 0,
                 llm_accepted |-> 0, llm_rejected |-> 0]
    IN  IF have = {} THEN stats \cup {zero} ELSE stats

\* UPDATE news_domain_stats SET col = col + ? WHERE asset_symbol = ? AND domain = ?
UpdateCounter(stats, a, d, col, by) ==
    LET have == {r \in stats : r.asset_symbol = a /\ r.domain = d}
        bump(r) == CASE col = "harvested_total" -> [r EXCEPT !.harvested_total = @ + by]
                     [] col = "stored_total" -> [r EXCEPT !.stored_total = @ + by]
                     [] col = "llm_accepted" -> [r EXCEPT !.llm_accepted = @ + by]
                     [] col = "llm_rejected" -> [r EXCEPT !.llm_rejected = @ + by]
    IN  (stats \ have) \cup {bump(r) : r \in have}

\* DuckDBDomainPolicyRepository._upsert_counter: insert the zero row unless
\* it exists, then col = col + by
_upsert_counter(stats, a, d, col, by) ==
    UpdateCounter(InsertZeroRow(stats, a, d), a, d, col, by)

\* DuckDBDomainPolicyRepository.record_llm_decision
record_llm_decision(stats, a, d, accepted) ==
    IF accepted THEN _upsert_counter(stats, a, d, "llm_accepted", 1)
    ELSE _upsert_counter(stats, a, d, "llm_rejected", 1)

\* DuckDBDomainPolicyRepository.record_harvest
record_harvest(stats, a, d, stored) ==
    LET h == _upsert_counter(stats, a, d, "harvested_total", 1)
    IN  IF stored THEN _upsert_counter(h, a, d, "stored_total", 1) ELSE h

\* SummarizeHarvest._record_llm_domain_stat: best effort, an exception of the
\* policy call is swallowed (ok = FALSE: the call raised, nothing recorded)
_record_llm_domain_stat(stats, url, a, accepted, ok) ==
    IF ~ok THEN stats ELSE record_llm_decision(stats, a, HostOf(url), accepted)

\* ---------------------------------------------------------------- use-case helpers
_to_bool_strict(val) ==
    IF val = "None" THEN "None"
    ELSE IF val = "True" THEN "True"
    ELSE IF val = "False" THEN "False"
    ELSE "None"

\* `if ai_relevance is not None:`
IsRelevantNotNone(ai) == _to_bool_strict(ai.relevance) # "None"

\* `if ai_relevance is True:` -- save a summary, else a rejection
IsRelevant(ai) == _to_bool_strict(ai.relevance) = "True"

\* url=url if article_id is None else None
VoteUrl(url, aid) == IF aid = None THEN url ELSE None

\* article_id=article_id if ai_relevance is True else None
VoteArticleId(aid, ai) == IF IsRelevant(ai) THEN aid ELSE None

\* ---------------------------------------------------------------- repository
InInbox(u, a) == {r \in url_harvests : r.url = u /\ r.asset_symbol = a}
InSummarized(u, a) == {r \in summarized_articles : r.url = u /\ r.asset_symbol = a}
InRejections(u, a) == {r \in rejections : r.url = u /\ r.asset_symbol = a}

\* DuckDBNewsRepository.save_url_harvest: what it returns and the row it inserts
save_url_harvest(u, a) ==
    IF InSummarized(u, a) # {} \/ InRejections(u, a) # {}
    THEN [id |-> 0, is_duplicate |-> TRUE, rows |-> {}]
    ELSE IF InInbox(u, a) # {}
    THEN [id |-> (CHOOSE r \in InInbox(u, a) : TRUE).id, is_duplicate |-> TRUE, rows |-> {}]
    ELSE [id |-> uhSeq + 1, is_duplicate |-> FALSE,
          rows |-> {[id |-> uhSeq + 1, url |-> u, asset_symbol |-> a,
                     discovered_at |-> harvestCalls + 1]}]

\* ORDER BY discovered_at ASC
RECURSIVE OrderByDiscovered(_)
OrderByDiscovered(S) ==
    IF S = {} THEN <<>>
    ELSE LET first == CHOOSE r \in S : \A o \in S : r.discovered_at <= o.discovered_at
         IN  <<first>> \o OrderByDiscovered(S \ {first})

\* a batch of the newest rows: the tail of the ascending order
fetch_url_harvest_batch_newest(a, limit, since) ==
    LET rows == {r \in url_harvests :
                    /\ r.asset_symbol = a
                    /\ (since # None => r.discovered_at >= since)}
        sorted == OrderByDiscovered(rows)
    IN  SubSeq(sorted, IF Len(sorted) < limit THEN 1 ELSE Len(sorted) - limit + 1, Len(sorted))

\* DuckDBNewsRepository.fetch_url_harvest_batch
fetch_url_harvest_batch(a, limit, since) ==
    LET rows == {r \in url_harvests :
                    /\ r.asset_symbol = a
                    /\ (since # None => r.discovered_at >= since)}
        sorted == OrderByDiscovered(rows)
    IN  SubSeq(sorted, 1, IF Len(sorted) < limit THEN Len(sorted) ELSE limit)

\* a delete that is never committed
delete_url_harvest_uncommitted(hid) == url_harvests

\* DELETE FROM url_harvests WHERE id = ?
delete_url_harvest(hid) == {r \in url_harvests : r.id # hid}

\* UNIQUE (url, asset_symbol) of summarized_articles
SummaryConflict(u, a) == InSummarized(u, a) # {}

\* ---------------------------------------------------------------- initial state
ZeroCnt == [processed |-> 0, saved |-> 0, deleted |-> 0, errors |-> 0, rejected_irrelevant |-> 0]
NoRun == [mode |-> "none", dry_run |-> FALSE, asset |-> "BTC"]
NoCall == [outs |-> <<>>, ai |-> LlmError]

\* no parallel batch has built a limiter
NoLimiter == [interval |-> 0, _next_time |-> 0, _lock |-> 0, clock |-> 0, thread |-> <<>>,
              todo |-> 0, returns |-> 0, first |-> 0, last |-> 0, late |-> 0]

\* HarvestSummary(0, 0, 0, 0, 0, 0)
ZeroSummary == [total_docs |-> 0, after_assemble |-> 0, after_dedupe |-> 0, saved |-> 0,
                skipped_duplicates |-> 0, rejected_invalid |-> 0]

\* no harvest run
\* a URL as its parts; path 0 with an empty scheme is the blank URL (None, "")
BlankUrl == [scheme |-> "", host |-> 0, path |-> 0, ext |-> "", query |-> "", fragment |-> ""]
NoEvent == [kind |-> "none", source |-> 0, idx |-> 0, url |-> BlankUrl, allowed |-> "not_called",
            save |-> "not_called", records |-> <<>>]
NoHrun == [pc |-> "idle", domain_policy |-> FALSE, enforce_domain_filter |-> FALSE,
           asset_symbol |-> "BTC", sources |-> 0, source |-> 0, docs |-> <<>>, doc |-> 0,
           summary |-> ZeroSummary, last |-> NoEvent, order |-> <<>>]

NoHttp == [client |-> "none", pc |-> "idle", max_retries |-> 0, json_error_retried |-> FALSE,
           buckets |-> 0, bucket |-> 0, attempt |-> 0, backoff |-> 0, use_pro |-> FALSE,
           calls |-> <<>>, slices |-> <<>>, results |-> {}]
NoRequest == [max_tokens |-> 0, result |-> "none", model |-> "none"]
NoLlmCall == [client |-> "none", pc |-> "idle", auto_scale_max_tokens |-> FALSE, max_tokens |-> 0,
              cap |-> 0, max_retries |-> 0, fallback_model |-> FALSE, model |-> "none",
              max_out |-> 0, attempt |-> 0, n |-> 0, prev |-> NoRequest, last |-> NoRequest,
              outcome |-> "none"]
NoGfetch == [pc |-> "idle", start |-> 0, end |-> 0, now |-> 0, slices |-> <<>>, slice |-> 0,
             queries |-> <<>>, results |-> <<>>]
NoUpserts == [thread |-> <<>>, version |-> 0]
NoFactors == [pc |-> "none", returns |-> <<>>, sent_map |-> <<>>, alpha |-> 0, ema_len |-> 0,
              window_sent |-> 0, norm_method |-> "none", winsor_alpha |-> 0, persist |-> FALSE,
              rows |-> <<>>, market_factors_daily |-> <<>>]
NoRollup == [pc |-> "none", snapshots |-> <<>>, candles |-> <<>>]
NoQbuild == [pc |-> "none", asset_symbol |-> "", major |-> {}, enforce |-> {},
             adapter |-> "none", query |-> <<>>]
NoResolver == [pc |-> "none", url |-> [host |-> "", sorry |-> FALSE, cont |-> "none", us |-> FALSE],
               headless_resolve |-> FALSE, playwright |-> FALSE, resolve_to_publisher |-> FALSE,
               metrics |-> FALSE, final |-> "none", hres |-> "none", res |-> <<>>, outcomes |-> <<>>]

NoUrlcheck == [pc |-> "none", url |-> <<>>, query |-> <<>>, valid |-> FALSE, valid_q |-> FALSE]

NoRetry == [limit |-> 0, failing |-> {}]

NoResult == [rows |-> <<{}, {}, {}, {}>>, content |-> <<{}, {}, {}, {}>>, cnt |-> ZeroCnt]
NoEquiv == [phase |-> "none", inbox |-> {}, outcome |-> <<>>, seq |-> NoResult]

Init ==
    /\ url_harvests = {}
    /\ summarized_articles = {}
    /\ rejections = {}
    /\ llm_votes = {}
    /\ uhSeq = 0
    /\ news_domain_stats = {}
    /\ clients \in 0..MaxClients
    /\ harvestCalls = 0
    /\ pc = "idle"
    /\ run = NoRun
    /\ gfetch = NoGfetch
    /\ upserts = NoUpserts
    /\ factors = NoFactors
    /\ rollup = NoRollup
    /\ qbuild = NoQbuild
    /\ resolver = NoResolver
    /\ urlcheck = NoUrlcheck
    /\ retry = NoRetry
    /\ equiv = NoEquiv
    /\ batch = <<>>
    /\ cur = 0
    /\ task = <<>>
    /\ article_id = None
    /\ vi = 0
    /\ cnt = ZeroCnt
    /\ batches = 0
    /\ trace = <<>>
    /\ ensembleCall = NoCall
    /\ limiter = NoLimiter
    /\ hrun = NoHrun
    /\ http = NoHttp
    /\ llm_call = NoLlmCall

\* ---------------------------------------------------------------- Harvest
\* HarvestUrls.run hands one document to save_url_harvest
HarvestSave(u, a) ==
    /\ harvestCalls < MaxHarvestCalls
    /\ LET res == save_url_harvest(u, a)
       IN  /\ url_harvests' = url_harvests \cup res.rows
           /\ uhSeq' = IF res.rows = {} THEN uhSeq ELSE uhSeq + 1
    /\ harvestCalls' = harvestCalls + 1
    /\ UNCHANGED <<summarized_articles, rejections, llm_votes, news_domain_stats, clients, ensembleCall>>
    /\ UNCHANGED side
    /\ UNCHANGED proc

\* the same call when the database raises: rollback, nothing is stored
HarvestSaveRaise(u, a) ==
    /\ harvestCalls < MaxHarvestCalls
    /\ harvestCalls' = harvestCalls + 1
    /\ UNCHANGED store
    /\ UNCHANGED <<clients, ensembleCall>>
    /\ UNCHANGED side
    /\ UNCHANGED proc

\* ---------------------------------------------------------------- Summarize-Harvest
Candidate == batch[cur]
Ai == task[cur].ai

NoTask == [st |-> "pending", ai |-> LlmError]
NoTrace == [status |-> "none", calls |-> <<>>]

\* where the loop goes once a candidate is finished: the next iteration
\* (processed += 1 at its top), the next completed future, or the return
NextPos(c, t) ==
    IF run.mode = "seq"
    THEN IF cur < Len(batch)
         THEN [pc |-> "llm", cur |-> cur + 1, cnt |-> [c EXCEPT !.processed = @ + 1]]
         ELSE [pc |-> "idle", cur |-> 0, cnt |-> c]
    ELSE IF \E i \in 1..Len(batch) : t[i].st # "taken"
         THEN [pc |-> "wait", cur |-> 0, cnt |-> c]
         ELSE [pc |-> "idle", cur |-> 0, cnt |-> c]

\* an except branch that leaves the loop
AfterErrorBreak(c, t) == [pc |-> "idle", cur |-> 0, cnt |-> [c EXCEPT !.errors = @ + 1]]

\* except Exception: errors += 1; continue
AfterError(c, t) == NextPos([c EXCEPT !.errors = @ + 1], t)

\* the candidate i ends in the except branch
CandidateError(i, t) ==
    LET np == AfterError(cnt, t)
    IN  /\ pc' = np.pc
        /\ cur' = np.cur
        /\ cnt' = np.cnt
        /\ task' = t
        /\ trace' = [trace EXCEPT ![i].status = "error"]
        /\ article_id' = None
        /\ vi' = 0

\* the candidate i ran through the try block: deleted += 1, next iteration
CandidateDone(i, c, call) ==
    LET np == NextPos([c EXCEPT !.deleted = @ + 1], task)
    IN  /\ pc' = np.pc
        /\ cur' = np.cur
        /\ cnt' = np.cnt
        /\ trace' = [trace EXCEPT ![i].status = "ok", ![i].calls = @ \o call]
        /\ article_id' = None
        /\ vi' = 0
        /\ UNCHANGED task

\* after a successful save_summary / save_rejection / save_vote: more votes, or the delete
AfterSavePc(v) == IF v > Len(Ai.votes) THEN "delete" ELSE "votes"

\* process_batch / process_batch_parallel up to the first LLM call
FetchBatch(a, limit, since, mode, dry) ==
    /\ pc = "idle"
    /\ LET b == fetch_url_harvest_batch(a, limit, since)
       IN  /\ batch' = b
           /\ task' = [i \in 1..Len(b) |-> NoTask]
           /\ trace' = [i \in 1..Len(b) |-> NoTrace]
           /\ IF b = <<>>
              THEN /\ pc' = "idle"
                   /\ cur' = 0
                   /\ cnt' = ZeroCnt
              ELSE IF mode = "seq"
              THEN /\ pc' = "llm"
                   /\ cur' = 1
                   /\ cnt' = [ZeroCnt EXCEPT !.processed = 1]
              ELSE /\ pc' = "wait"
                   /\ cur' = 0
                   /\ cnt' = ZeroCnt
    /\ run' = [mode |-> mode, dry_run |-> dry, asset |-> a]
    /\ article_id' = None
    /\ vi' = 0
    /\ UNCHANGED store
    /\ UNCHANGED harvest
    /\ UNCHANGED <<clients, ensembleCall>>
    /\ UNCHANGED side

\* one of the boundedly many invocations of the command
StartBatch(a, limit, since, mode, dry) ==
    /\ batches < MaxBatches
    /\ FetchBatch(a, limit, since, mode, dry)
    /\ batches' = batches + 1

\* process_batch: self.llm.summarize_and_score returns
SeqLlmCall(outs) ==
    /\ pc = "llm"
    /\ LET ai == summarize_and_score(clients, outs)
           t == [task EXCEPT ![cur] = [st |-> "taken", ai |-> ai]]
       IN  IF ai.ok
           THEN /\ task' = t
                /\ pc' = "save"
                /\ article_id' = None
                /\ vi' = 1
                /\ UNCHANGED <<cur, cnt, trace>>
           ELSE CandidateError(cur, t)
    /\ UNCHANGED <<run, batch, batches>>
    /\ UNCHANGED store
    /\ UNCHANGED harvest
    /\ UNCHANGED <<clients, ensembleCall>>
    /\ UNCHANGED side

\* process_batch: the LlmPort call raises
SeqLlmRaise ==
    /\ pc = "llm"
    /\ CandidateError(cur, [task EXCEPT ![cur] = [st |-> "taken", ai |-> LlmError]])
    /\ UNCHANGED <<run, batch, batches>>
    /\ UNCHANGED store
    /\ UNCHANGED harvest
    /\ UNCHANGED <<clients, ensembleCall>>
    /\ UNCHANGED side

\* a worker thread that counts its own task as processed
ParLlmTaskCounting(i, outs) ==
    /\ run.mode = "par"
    /\ pc # "idle"
    /\ i \in 1..Len(batch)
    /\ task[i].st = "pending"
    /\ task' = [task EXCEPT ![i] = [st |-> "done", ai |-> summarize_and_score(clients, outs)]]
    /\ cnt' = [cnt EXCEPT !.processed = @ + 1]
    /\ UNCHANGED <<pc, run, batch, cur, article_id, vi, batches, trace>>
    /\ UNCHANGED store
    /\ UNCHANGED harvest
    /\ UNCHANGED <<clients, ensembleCall>>
    /\ UNCHANGED side

\* process_batch_parallel: _llm_task of candidate i completes in a worker thread
ParLlmTask(i, outs) ==
    /\ run.mode = "par"
    /\ pc # "idle"
    /\ i \in 1..Len(batch)
    /\ task[i].st = "pending"
    /\ task' = [task EXCEPT ![i] = [st |-> "done", ai |-> summarize_and_score(clients, outs)]]
    /\ UNCHANGED <<pc, run, batch, cur, article_id, vi, cnt, batches, trace>>
    /\ UNCHANGED store
    /\ UNCHANGED harvest
    /\ UNCHANGED <<clients, ensembleCall>>
    /\ UNCHANGED side

\* process_batch_parallel: _llm_task catches the exception of the LlmPort call
ParLlmTaskRaise(i) ==
    /\ run.mode = "par"
    /\ pc # "idle"
    /\ i \in 1..Len(batch)
    /\ task[i].st = "pending"
    /\ task' = [task EXCEPT ![i] = [st |-> "done", ai |-> LlmError]]
    /\ UNCHANGED <<pc, run, batch, cur, article_id, vi, cnt, batches, trace>>
    /\ UNCHANGED store
    /\ UNCHANGED harvest
    /\ UNCHANGED <<clients, ensembleCall>>
    /\ UNCHANGED side

\* a reduce loop that does not count a failed future in errors
ParTakeUncounted(i) ==
    /\ pc = "wait"
    /\ i \in 1..Len(batch)
    /\ task[i].st = "done"
    /\ LET t == [task EXCEPT ![i].st = "taken"]
           c == [cnt EXCEPT !.processed = @ + 1]
       IN  IF task[i].ai.ok
           THEN /\ task' = t
                /\ cnt' = c
                /\ cur' = i
                /\ pc' = "save"
                /\ article_id' = None
                /\ vi' = 1
                /\ UNCHANGED trace
           ELSE LET np == NextPos(c, t)
                IN  /\ task' = t
                    /\ cnt' = np.cnt
                    /\ cur' = np.cur
                    /\ pc' = np.pc
                    /\ trace' = [trace EXCEPT ![i].status = "error"]
                    /\ article_id' = None
                    /\ vi' = 0
    /\ UNCHANGED <<run, batch, batches>>
    /\ UNCHANGED store
    /\ UNCHANGED harvest
    /\ UNCHANGED <<clients, ensembleCall>>
    /\ UNCHANGED side

\* process_batch_parallel: as_completed yields the future of candidate i
ParTake(i) ==
    /\ pc = "wait"
    /\ i \in 1..Len(batch)
    /\ task[i].st = "done"
    /\ LET t == [task EXCEPT ![i].st = "taken"]
           c == [cnt EXCEPT !.processed = @ + 1]
       IN  IF task[i].ai.ok
           THEN /\ task' = t
                /\ cnt' = c
                /\ cur' = i
                /\ pc' = "save"
                /\ article_id' = None
                /\ vi' = 1
                /\ UNCHANGED trace
           ELSE LET np == AfterError(c, t)
                IN  /\ task' = t
                    /\ cnt' = np.cnt
                    /\ cur' = np.cur
                    /\ pc' = np.pc
                    /\ trace' = [trace EXCEPT ![i].status = "error"]
                    /\ article_id' = None
                    /\ vi' = 0
    /\ UNCHANGED <<run, batch, batches>>
    /\ UNCHANGED store
    /\ UNCHANGED harvest
    /\ UNCHANGED <<clients, ensembleCall>>
    /\ UNCHANGED side

\* the relevant branch: save_summary, saved += 1
SaveSummary(ok, stat_ok) ==
    /\ pc = "save"
    /\ IsRelevant(Ai)
    /\ news_domain_stats' =
           IF run.dry_run \/ (ok /\ ~SummaryConflict(Candidate.url, run.asset))
           THEN _record_llm_domain_stat(news_domain_stats, Candidate.url, run.asset, TRUE, stat_ok)
           ELSE news_domain_stats
    /\ (~run.dry_run /\ ~(ok /\ ~SummaryConflict(Candidate.url, run.asset))) => stat_ok
    /\ IF run.dry_run
       THEN /\ ok
            /\ CandidateDone(cur, [cnt EXCEPT !.saved = @ + 1], <<>>)
            /\ UNCHANGED summarized_articles
       ELSE IF ok /\ ~SummaryConflict(Candidate.url, run.asset)
       THEN LET id == NextId(summarized_articles)
            IN  /\ summarized_articles' = summarized_articles \cup
                       {[id |-> id, url |-> Candidate.url, asset_symbol |-> run.asset]}
                /\ article_id' = id
                /\ cnt' = [cnt EXCEPT !.saved = @ + 1]
                /\ trace' = [trace EXCEPT ![cur].calls = Append(@, [op |-> "save_summary", id |-> id])]
                /\ pc' = AfterSavePc(1)
                /\ UNCHANGED <<cur, task, vi>>
       ELSE /\ CandidateError(cur, task)
            /\ UNCHANGED summarized_articles
    /\ UNCHANGED <<url_harvests, rejections, llm_votes, uhSeq>>
    /\ UNCHANGED <<run, batch, batches>>
    /\ UNCHANGED harvest
    /\ UNCHANGED <<clients, ensembleCall>>
    /\ UNCHANGED side

\* the else branch: save_rejection, rejected_irrelevant += 1
SaveRejection(ok, stat_ok) ==
    /\ pc = "save"
    /\ ~IsRelevant(Ai)
    /\ news_domain_stats' =
           IF run.dry_run \/ ok
           THEN _record_llm_domain_stat(news_domain_stats, Candidate.url, run.asset, FALSE, stat_ok)
           ELSE news_domain_stats
    /\ (~run.dry_run /\ ~ok) => stat_ok
    /\ IF run.dry_run
       THEN /\ ok
            /\ CandidateDone(cur, [cnt EXCEPT !.rejected_irrelevant = @ + 1], <<>>)
            /\ UNCHANGED rejections
       ELSE IF ok
       THEN LET id == NextId(rejections)
            IN  /\ rejections' = rejections \cup
                       {[id |-> id, url |-> Candidate.url, asset_symbol |-> run.asset,
                         reason |-> "no_asset_relation", context |-> "summarize",
                         model |-> "ensemble"]}
                /\ cnt' = [cnt EXCEPT !.rejected_irrelevant = @ + 1]
                /\ trace' = [trace EXCEPT ![cur].calls = Append(@, [op |-> "save_rejection", id |-> id])]
                /\ pc' = AfterSavePc(1)
                /\ UNCHANGED <<cur, task, vi, article_id>>
       ELSE /\ CandidateError(cur, task)
            /\ UNCHANGED rejections
    /\ UNCHANGED <<url_harvests, summarized_articles, llm_votes, uhSeq>>
    /\ UNCHANGED <<run, batch, batches>>
    /\ UNCHANGED harvest
    /\ UNCHANGED <<clients, ensembleCall>>
    /\ UNCHANGED side

\* for v in ai["votes"]: save_vote
SaveVote(ok) ==
    /\ pc = "votes"
    /\ IF ok
       THEN LET id == NextId(llm_votes)
                v == Ai.votes[vi]
            IN  /\ llm_votes' = llm_votes \cup
                       {[id |-> id,
                         url |-> VoteUrl(Candidate.url, article_id),
                         asset_symbol |-> run.asset,
                         model |-> v.model,
                         relevance |-> (_to_bool_strict(v.relevance) = "True"),
                         harvest_id |-> Candidate.id,
                         article_id |-> VoteArticleId(article_id, Ai)]}
                /\ trace' = [trace EXCEPT ![cur].calls = Append(@, [op |-> "save_vote", id |-> id])]
                /\ vi' = vi + 1
                /\ pc' = AfterSavePc(vi + 1)
                /\ UNCHANGED <<cur, task, article_id, cnt>>
       ELSE /\ CandidateError(cur, task)
            /\ UNCHANGED llm_votes
    /\ UNCHANGED <<url_harvests, summarized_articles, rejections, uhSeq, news_domain_stats>>
    /\ UNCHANGED <<run, batch, batches>>
    /\ UNCHANGED harvest
    /\ UNCHANGED <<clients, ensembleCall>>
    /\ UNCHANGED side

\* self.news_repo.delete_url_harvest(harvest_id); deleted += 1
DeleteUrlHarvest(ok) ==
    /\ pc = "delete"
    /\ IF ok
       THEN /\ url_harvests' = delete_url_harvest(Candidate.id)
            /\ CandidateDone(cur, cnt, <<[op |-> "delete_url_harvest", id |-> Candidate.id]>>)
       ELSE /\ CandidateError(cur, task)
            /\ UNCHANGED url_harvests
    /\ UNCHANGED <<summarized_articles, rejections, llm_votes, uhSeq, news_domain_stats>>
    /\ UNCHANGED <<run, batch, batches>>
    /\ UNCHANGED harvest
    /\ UNCHANGED <<clients, ensembleCall>>
    /\ UNCHANGED side

\* ---------------------------------------------------------------- specification
Next ==
    \/ \E u \in Urls, a \in Assets : HarvestSave(u, a)
    \/ \E u \in Urls, a \in Assets : HarvestSaveRaise(u, a)
    \/ \E a \in Assets, limit \in 1..MaxLimit, since \in 0..MaxHarvestCalls,
          mode \in {"seq", "par"}, dry \in BOOLEAN : StartBatch(a, limit, since, mode, dry)
    \/ \E outs \in [1..clients -> ClientOutcomes] : SeqLlmCall(outs)
    \/ SeqLlmRaise
    \/ \E i \in 1..MaxLimit, outs \in [1..clients -> ClientOutcomes] : ParLlmTask(i, outs)
    \/ \E i \in 1..MaxLimit : ParLlmTaskRaise(i)
    \/ \E i \in 1..MaxLimit : ParTake(i)
    \/ \E ok, stat_ok \in BOOLEAN : SaveSummary(ok, stat_ok)
    \/ \E ok, stat_ok \in BOOLEAN : SaveRejection(ok, stat_ok)
    \/ \E ok \in BOOLEAN : SaveVote(ok)
    \/ \E ok \in BOOLEAN : DeleteUrlHarvest(ok)

Spec == Init /\ [][Next]_vars

\* the steps of the Summarize-Harvest command once a batch is fetched; the
\* command runs to its return: every step is a call that comes back
BatchStep ==
    \/ \E outs \in [1..clients -> ClientOutcomes] : SeqLlmCall(outs)
    \/ SeqLlmRaise
    \/ \E i \in 1..MaxLimit, outs \in [1..clients -> ClientOutcomes] : ParLlmTask(i, outs)
    \/ \E i \in 1..MaxLimit : ParLlmTaskRaise(i)
    \/ \E i \in 1..MaxLimit : ParTake(i)
    \/ \E ok, stat_ok \in BOOLEAN : SaveSummary(ok, stat_ok)
    \/ \E ok, stat_ok \in BOOLEAN : SaveRejection(ok, stat_ok)
    \/ \E ok \in BOOLEAN : SaveVote(ok)
    \/ \E ok \in BOOLEAN : DeleteUrlHarvest(ok)

FairSpec == Spec /\ WF_vars(BatchStep)

\* ---------------------------------------------------------------- the ensemble on its own
\* EnsembleClient.summarize_and_score called with every combination of client
\* behaviours, for ensembles of 0..MaxVoters clients
InitEnsemble ==
    /\ url_harvests = {}
    /\ summarized_articles = {}
    /\ rejections = {}
    /\ llm_votes = {}
    /\ uhSeq = 0
    /\ news_domain_stats = {}
    /\ clients \in 0..MaxVoters
    /\ harvestCalls = 0
    /\ pc = "idle"
    /\ run = NoRun
    /\ gfetch = NoGfetch
    /\ upserts = NoUpserts
    /\ factors = NoFactors
    /\ rollup = NoRollup
    /\ qbuild = NoQbuild
    /\ resolver = NoResolver
    /\ urlcheck = NoUrlcheck
    /\ retry = NoRetry
    /\ equiv = NoEquiv
    /\ batch = <<>>
    /\ cur = 0
    /\ task = <<>>
    /\ article_id = None
    /\ vi = 0
    /\ cnt = ZeroCnt
    /\ batches = 0
    /\ trace = <<>>
    /\ ensembleCall = NoCall
    /\ limiter = NoLimiter
    /\ hrun = NoHrun
    /\ http = NoHttp
    /\ llm_call = NoLlmCall

EnsembleCall(outs) ==
    /\ ensembleCall' = [outs |-> outs, ai |-> summarize_and_score(clients, outs)]
    /\ UNCHANGED store
    /\ UNCHANGED harvest
    /\ UNCHANGED proc
    /\ UNCHANGED clients
    /\ UNCHANGED side

NextEnsemble == \E outs \in [1..clients -> ClientOutcomes] : EnsembleCall(outs)

SpecEnsemble == InitEnsemble /\ [][NextEnsemble]_vars


\* ---------------------------------------------------------------- the rate limiter
\* the pipeline at rest: nothing stored, no batch running
PipelineIdle ==
    /\ url_harvests = {}
    /\ summarized_articles = {}
    /\ rejections = {}
    /\ llm_votes = {}
    /\ uhSeq = 0
    /\ news_domain_stats = {}
    /\ clients = 0
    /\ harvestCalls = 0
    /\ pc = "idle"
    /\ run = NoRun
    /\ batch = <<>>
    /\ cur = 0
    /\ task = <<>>
    /\ article_id = None
    /\ vi = 0
    /\ cnt = ZeroCnt
    /\ batches = 0
    /\ trace = <<>>
    /\ ensembleCall = NoCall

pipeline == <<store, harvest, proc, clients, ensembleCall>>

\* the clock counts ticks of 1/20 s, so that 5% of an interval is a whole
\* number of ticks for the rates below
TicksPerSecond == 20
RateChoices == {60}

\* self.interval = 60.0 / max(1, calls_per_minute)
IntervalOf(calls_per_minute) ==
    (60 * TicksPerSecond) \div (IF calls_per_minute < 1 THEN 1 ELSE calls_per_minute)

\* random.uniform(-0.05, 0.05) * self.interval
Jitters(interval) == (0 - interval \div 20)..(interval \div 20)

\* a limiter that advances from the old instant instead of from now
NextTimeFromNext(l, now, jitter) == l._next_time + l.interval + jitter

\* self._next_time = now + self.interval + jitter
NextTime(l, now, jitter) == now + l.interval + jitter

\* a wait() that returns without advancing the next instant
WaitReturnKeepNext(l, w, now, jitter) ==
    [l EXCEPT !._lock = 0,
              !.thread[w] = "llm",
              !.returns = @ + 1,
              !.first = IF l.returns = 0 THEN now ELSE @,
              !.last = now,
              !.late = IF l.returns = 0 THEN 0 ELSE @ + (now - l._next_time)]

\* wait() returns in thread w at instant now: the next instant is advanced,
\* the lock released, and the thread goes on to its LLM call
WaitReturn(l, w, now, jitter) ==
    [l EXCEPT !._next_time = NextTime(l, now, jitter),
              !._lock = 0,
              !.thread[w] = "llm",
              !.returns = @ + 1,
              !.first = IF l.returns = 0 THEN now ELSE @,
              !.last = now,
              !.late = IF l.returns = 0 THEN 0 ELSE @ + (now - l._next_time)]

\* process_batch_parallel builds the limiter and submits the tasks to a pool
\* of W workers; the first min(W, tasks) tasks start at once
InitLimiter ==
    /\ PipelineIdle
    /\ \E R \in RateChoices, W \in 1..MaxWorkers, B \in 1..MaxTasks :
          limiter = [interval |-> IntervalOf(R), _next_time |-> 0, _lock |-> 0, clock |-> 0,
                     thread |-> [w \in 1..W |-> IF w <= B THEN "ready" ELSE "done"],
                     todo |-> IF B > W THEN B - W ELSE 0,
                     returns |-> 0, first |-> 0, last |-> 0, late |-> 0]
    /\ hrun = NoHrun
    /\ http = NoHttp
    /\ llm_call = NoLlmCall
    /\ gfetch = NoGfetch
    /\ upserts = NoUpserts
    /\ factors = NoFactors
    /\ rollup = NoRollup
    /\ qbuild = NoQbuild
    /\ resolver = NoResolver
    /\ urlcheck = NoUrlcheck
    /\ retry = NoRetry
    /\ equiv = NoEquiv

\* time passes; a sleeping thread is woken at most MaxOvershoot ticks late
Tick ==
    /\ limiter.clock < MaxClock
    /\ \E w \in DOMAIN limiter.thread : limiter.thread[w] # "done"
    /\ (limiter._lock # 0 => limiter.clock < limiter._next_time + MaxOvershoot)
    /\ limiter' = [limiter EXCEPT !.clock = @ + 1]
    /\ UNCHANGED pipeline
    /\ UNCHANGED exceptLimiter

\* wait(): thread w gets the lock and reads the clock; it sleeps when the
\* next instant lies ahead, else it returns at once
WaitEnter(w, jitter) ==
    /\ w \in DOMAIN limiter.thread
    /\ limiter.thread[w] = "ready"
    /\ limiter._lock = 0
    /\ jitter \in Jitters(limiter.interval)
    /\ IF limiter.clock < limiter._next_time
       THEN limiter' = [limiter EXCEPT !._lock = w, !.thread[w] = "sleep"]
       ELSE limiter' = WaitReturn(limiter, w, limiter.clock, jitter)
    /\ UNCHANGED pipeline
    /\ UNCHANGED exceptLimiter

\* time.sleep(self._next_time - now) is over; now = time.monotonic()
WaitWake(w, jitter) ==
    /\ w \in DOMAIN limiter.thread
    /\ limiter.thread[w] = "sleep"
    /\ limiter.clock >= limiter._next_time
    /\ jitter \in Jitters(limiter.interval)
    /\ limiter' = WaitReturn(limiter, w, limiter.clock, jitter)
    /\ UNCHANGED pipeline
    /\ UNCHANGED exceptLimiter

\* the LLM call of thread w comes back; the worker takes the next task
LlmCallDone(w) ==
    /\ w \in DOMAIN limiter.thread
    /\ limiter.thread[w] = "llm"
    /\ limiter' = IF limiter.todo > 0
                  THEN [limiter EXCEPT !.thread[w] = "ready", !.todo = @ - 1]
                  ELSE [limiter EXCEPT !.thread[w] = "done"]
    /\ UNCHANGED pipeline
    /\ UNCHANGED exceptLimiter

MaxJitter == 1

NextLimiter ==
    \/ Tick
    \/ \E w \in 1..MaxWorkers, jitter \in (0 - MaxJitter)..MaxJitter : WaitEnter(w, jitter)
    \/ \E w \in 1..MaxWorkers, jitter \in (0 - MaxJitter)..MaxJitter : WaitWake(w, jitter)
    \/ \E w \in 1..MaxWorkers : LlmCallDone(w)

SpecLimiter == InitLimiter /\ [][NextLimiter]_vars


\* ---------------------------------------------------------------- HarvestUrls.run
PageUrl(p) == [scheme |-> "https://", host |-> HostOf(p), path |-> p, ext |-> "",
               query |-> "", fragment |-> ""]
ImageUrl(p) == [scheme |-> "https://", host |-> HostOf(p), path |-> p, ext |-> ".jpg",
                query |-> "", fragment |-> ""]

\* the raw documents a source may return, by the URL pick_fields finds in them:
\* no URL, an image URL (invalid, with a host) and an article URL
DocChoices == {BlankUrl, ImageUrl(1), PageUrl(1)}

PolicyOutcomes == {"True", "False", "None", "raise"}

\* a URL as text: the scheme, then the pieces of the rest, with "?" and "#" as
\* pieces of their own
UrlText(url) ==
    IF url = BlankUrl THEN <<>>
    ELSE <<url.scheme, "seg">>
         \o (IF url.ext # "" THEN <<url.ext>> ELSE <<>>)
         \o (IF url.query # "" THEN <<"?", url.query>> ELSE <<>>)
         \o (IF url.fragment # "" THEN <<"#", url.fragment>> ELSE <<>>)

\* url.lower()
Lower(ext) ==
    CASE ext = ".JPG" -> ".jpg"
      [] ext = ".PDF" -> ".pdf"
      [] OTHER -> ext

\* not url or not url.strip()
IsBlank(text) == \A i \in 1..Len(text) : text[i] = " "

\* text.split("?", 1)[0] taken whole: the mutant of UrlBase
UrlBaseUnsplit(text) == text

\* text.split("?", 1)[0]
UrlBase(text) ==
    IF \E i \in 1..Len(text) : text[i] = "?"
    THEN SubSeq(text, 1, (CHOOSE i \in 1..Len(text) :
                             /\ text[i] = "?"
                             /\ \A j \in 1..(i - 1) : text[j] # "?") - 1)
    ELSE text

InvalidExtensions == {".jpg", ".png", ".gif", ".pdf"}

is_valid_news_text(text) ==
    IF IsBlank(text) THEN FALSE
    ELSE IF text[1] \notin {"http://", "https://"} THEN FALSE
    ELSE LET base == UrlBase(text)
         IN  Lower(base[Len(base)]) \notin InvalidExtensions

is_valid_news_url(url) == is_valid_news_text(UrlText(url))

\* (urlparse(u).hostname or "").lower() or None
_hostname(url) == url.host

\* the next source of the for loop, or the return
NextSource(h) ==
    IF h.source < h.sources
    THEN [h EXCEPT !.pc = "fetch", !.source = @ + 1, !.docs = <<>>, !.doc = 0]
    ELSE [h EXCEPT !.pc = "done", !.docs = <<>>, !.doc = 0]

\* an except branch that leaves the loop over the sources
AfterFetchErrorBreak(h) == [h EXCEPT !.pc = "done", !.docs = <<>>, !.doc = 0]

\* except Exception: log; continue
AfterFetchError(h) == NextSource(h)

\* the next document of the inner loop, or the next source
NextDoc(h) ==
    IF h.doc < Len(h.docs) THEN [h EXCEPT !.doc = @ + 1] ELSE NextSource(h)

\* the successful record_harvest calls applied to the statistics
RECURSIVE ApplyRecords(_, _, _, _)
ApplyRecords(stats, a, d, recs) ==
    IF recs = <<>> THEN stats
    ELSE ApplyRecords(IF Head(recs).ok THEN record_harvest(stats, a, d, Head(recs).stored) ELSE stats,
                      a, d, Tail(recs))

InitHarvest ==
    /\ PipelineIdle
    /\ limiter = NoLimiter
    /\ http = NoHttp
    /\ llm_call = NoLlmCall
    /\ gfetch = NoGfetch
    /\ upserts = NoUpserts
    /\ factors = NoFactors
    /\ rollup = NoRollup
    /\ qbuild = NoQbuild
    /\ resolver = NoResolver
    /\ urlcheck = NoUrlcheck
    /\ retry = NoRetry
    /\ equiv = NoEquiv
    /\ \E n \in 0..MaxSources, p \in BOOLEAN, e \in BOOLEAN :
          hrun = [NoHrun EXCEPT !.pc = IF n = 0 THEN "done" ELSE "fetch",
                                !.domain_policy = p, !.enforce_domain_filter = e,
                                !.sources = n, !.source = IF n = 0 THEN 0 ELSE 1]

\* docs = source.fetch_documents(criteria); total_docs += len(docs)
FetchDocuments(docs) ==
    /\ hrun.pc = "fetch"
    /\ LET h == [hrun EXCEPT !.summary.total_docs = @ + Len(docs),
                             !.order = Append(@, [kind |-> "fetch", source |-> hrun.source, idx |-> 0,
                                                  docs |-> docs, url |-> BlankUrl]),
                             !.docs = docs]
       IN  hrun' = IF docs = <<>> THEN NextSource(h) ELSE [h EXCEPT !.pc = "docs", !.doc = 1]
    /\ UNCHANGED pipeline
    /\ UNCHANGED exceptHrun

\* fetch_documents raises
FetchDocumentsRaise ==
    /\ hrun.pc = "fetch"
    /\ hrun' = AfterFetchError([hrun EXCEPT !.order =
                          Append(@, [kind |-> "failed", source |-> hrun.source, idx |-> 0,
                                     docs |-> <<>>, url |-> BlankUrl])])
    /\ UNCHANGED pipeline
    /\ UNCHANGED exceptHrun

\* one iteration of `for doc in docs`: allowed is what is_allowed does,
\* save_ok whether save_url_harvest returns, rec1 and rec2 whether the first
\* and the second record_harvest call return
HarvestDoc(allowed, save_ok, rec1, rec2) ==
    /\ hrun.pc = "docs"
    /\ LET url == hrun.docs[hrun.doc]
           a == hrun.asset_symbol
           host == _hostname(url)
           valid == is_valid_news_url(url)
           policy == hrun.domain_policy /\ host # 0
           res == save_url_harvest(url.path, a)
           branch ==
               IF ~valid THEN "invalid"
               ELSE IF policy /\ allowed = "raise" THEN "policy_raise"
               ELSE IF policy /\ hrun.enforce_domain_filter /\ allowed = "False" THEN "blocked"
               ELSE IF ~save_ok THEN "save_raise"
               ELSE IF res.is_duplicate THEN "duplicate"
               ELSE "stored"
           saved_ok == branch \in {"duplicate", "stored"}
           recs ==
               IF ~policy \/ branch = "policy_raise" THEN <<>>
               ELSE IF ~saved_ok THEN <<[stored |-> FALSE, ok |-> rec1]>>
               ELSE IF rec1 THEN <<[stored |-> (branch = "stored"), ok |-> TRUE]>>
               ELSE <<[stored |-> (branch = "stored"), ok |-> FALSE], [stored |-> FALSE, ok |-> rec2]>>
           \* rejected_invalid += 1 of the branch, of the inner and of the outer except
           rejected ==
               CASE branch = "invalid" -> 1 + (IF recs # <<>> /\ ~rec1 THEN 1 ELSE 0)
                 [] branch = "policy_raise" -> 1
                 [] branch = "blocked" -> 1
                 [] branch = "save_raise" -> 1 + (IF recs # <<>> /\ ~rec1 THEN 1 ELSE 0)
                 [] OTHER -> IF recs # <<>> /\ ~rec1 THEN 1 + (IF rec2 THEN 0 ELSE 1) ELSE 0
           sum == [hrun.summary EXCEPT
                      !.after_assemble = @ + (IF branch \in {"save_raise", "duplicate", "stored"} THEN 1 ELSE 0),
                      !.after_dedupe = @ + (IF saved_ok THEN 1 ELSE 0),
                      !.saved = @ + (IF branch = "stored" THEN 1 ELSE 0),
                      !.skipped_duplicates = @ + (IF branch = "duplicate" THEN 1 ELSE 0),
                      !.rejected_invalid = @ + rejected]
           ev == [kind |-> "doc", source |-> hrun.source, idx |-> hrun.doc, url |-> url,
                  allowed |-> IF valid /\ policy THEN allowed ELSE "not_called",
                  save |-> IF branch \in {"save_raise", "duplicate", "stored"} THEN branch ELSE "not_called",
                  records |-> recs]
       IN  \* the outcome of a call that is not made is not a choice
           /\ (~(valid /\ policy)) => allowed = "True"
           /\ branch \in {"invalid", "policy_raise", "blocked"} => save_ok
           /\ recs = <<>> => rec1
           /\ Len(recs) < 2 => rec2
           /\ hrun' = NextDoc([hrun EXCEPT !.summary = sum, !.last = ev,
                                            !.order = Append(@, [kind |-> "doc", source |-> hrun.source,
                                                                 idx |-> hrun.doc, docs |-> hrun.docs,
                                                                 url |-> url])])
           /\ url_harvests' = IF saved_ok THEN url_harvests \cup res.rows ELSE url_harvests
           /\ uhSeq' = IF branch = "stored" THEN uhSeq + 1 ELSE uhSeq
           /\ harvestCalls' = IF ev.save # "not_called" THEN harvestCalls + 1 ELSE harvestCalls
           /\ news_domain_stats' = ApplyRecords(news_domain_stats, a, host, recs)
    /\ UNCHANGED <<summarized_articles, rejections, llm_votes, clients, ensembleCall>>
    /\ UNCHANGED proc
    /\ UNCHANGED exceptHrun

NextHarvest ==
    \/ \E docs \in UNION {[1..n -> DocChoices] : n \in 0..MaxDocs} : FetchDocuments(docs)
    \/ FetchDocumentsRaise
    \/ \E allowed \in PolicyOutcomes, save_ok, rec1, rec2 \in BOOLEAN :
           HarvestDoc(allowed, save_ok, rec1, rec2)

SpecHarvest == InitHarvest /\ [][NextHarvest]_vars


\* ---------------------------------------------------------------- HTTP clients' retry loops
\* what one HTTP request can come to: a good JSON answer, 429/5xx, another
\* 4xx, a 400 whose body names the other CoinGecko endpoint, a Content-Type
\* that is not JSON, a body that does not parse, a requests.RequestException
GdeltResponses == {"ok", "retryable", "client_error", "non_json", "bad_json", "transport"}
CoinGeckoResponses == {"ok", "retryable", "client_error", "hint_pro", "hint_public", "bad_json", "transport"}
XaiResponses == {"ok", "retryable", "client_error", "bad_json", "transport"}

\* a backoff that stays at its initial value
NextBackoffSame(backoff) == backoff

\* backoff *= 2
NextBackoff(backoff) == backoff * 2

\* the call returns or raises; fetch_documents goes on with the next day slice
FinishCall(h, calls, outcome) ==
    LET d == [h EXCEPT !.slices = Append(@, [outcome |-> outcome, requests |-> Len(calls)]),
                       !.results = IF outcome = "data" THEN @ \cup {h.bucket} ELSE @,
                       !.calls = calls, !.attempt = 0, !.backoff = 1]
    IN  IF h.bucket < h.buckets THEN [d EXCEPT !.bucket = @ + 1] ELSE [d EXCEPT !.pc = "done"]

\* the requests of the running call (http.calls keeps those of the call that
\* ended until the next call sends its first)
RunningCalls(h) == IF h.attempt = 0 THEN <<>> ELSE h.calls

\* time.sleep(backoff); backoff *= 2, then the next attempt
SleepAndRetry(h, calls) ==
    [h EXCEPT !.attempt = @ + 1, !.backoff = NextBackoff(@), !.calls = calls]

InitHttp ==
    /\ PipelineIdle
    /\ limiter = NoLimiter
    /\ hrun = NoHrun
    /\ llm_call = NoLlmCall
    /\ gfetch = NoGfetch
    /\ upserts = NoUpserts
    /\ factors = NoFactors
    /\ rollup = NoRollup
    /\ qbuild = NoQbuild
    /\ resolver = NoResolver
    /\ urlcheck = NoUrlcheck
    /\ retry = NoRetry
    /\ equiv = NoEquiv
    /\ \E c \in {"gdelt", "coingecko", "xai"}, m \in 1..MaxRetries, j \in BOOLEAN,
          n \in 1..MaxBuckets, pro \in BOOLEAN :
          /\ c # "gdelt" => n = 1
          /\ c # "coingecko" => ~pro
          /\ http = [NoHttp EXCEPT !.client = c, !.pc = "request", !.max_retries = m,
                                   !.json_error_retried = j, !.buckets = n, !.bucket = 1,
                                   !.backoff = 1, !.use_pro = pro]

\* one pass of the while loop of GdeltClient._request_json
GdeltRequest(resp) ==
    /\ http.client = "gdelt" /\ http.pc = "request"
    /\ LET attempt == http.attempt + 1
           retried == \/ resp \in {"retryable", "client_error", "transport"}
                      \/ resp = "bad_json" /\ http.json_error_retried
           calls == Append(RunningCalls(http), [resp |-> resp, attempt |-> attempt,
                                        slept |-> IF retried THEN http.backoff ELSE 0])
       IN  http' = IF retried
                   THEN IF attempt < http.max_retries THEN SleepAndRetry(http, calls)
                        ELSE FinishCall(http, calls, "None")
                   ELSE FinishCall(http, calls, IF resp = "ok" THEN "data" ELSE "None")
    /\ UNCHANGED pipeline
    /\ UNCHANGED exceptHttp

\* one pass of the for loop of CoinGeckoClient._request
CoinGeckoRequest(resp) ==
    /\ http.client = "coingecko" /\ http.pc = "request"
    /\ LET attempt == http.attempt + 1
           last == attempt >= http.max_retries
           switch == \/ resp = "hint_pro" /\ ~http.use_pro
                     \/ resp = "hint_public" /\ http.use_pro
           caught == \/ resp \in {"retryable", "client_error", "hint_pro", "hint_public", "transport"}
                     \/ resp = "bad_json" /\ http.json_error_retried
           sleeps == ~switch /\ caught /\ ~last
           calls == Append(RunningCalls(http), [resp |-> resp, attempt |-> attempt,
                                        slept |-> IF sleeps THEN http.backoff ELSE 0])
       IN  http' = IF resp = "ok" THEN FinishCall(http, calls, "data")
                   ELSE IF switch
                   THEN IF last THEN FinishCall(http, calls, "raise")
                        ELSE [http EXCEPT !.attempt = attempt, !.use_pro = ~@, !.calls = calls]
                   ELSE IF caught /\ ~last THEN SleepAndRetry(http, calls)
                   ELSE FinishCall(http, calls, "raise")
    /\ UNCHANGED pipeline
    /\ UNCHANGED exceptHttp

\* one XAIClient._call_api, which calls itself for the next attempt
XaiRequest(resp) ==
    /\ http.client = "xai" /\ http.pc = "request"
    /\ LET attempt == http.attempt + 1
           calls == Append(RunningCalls(http), [resp |-> resp, attempt |-> attempt, slept |-> 0])
       IN  http' = IF resp = "ok" THEN FinishCall(http, calls, "data")
                   ELSE IF attempt < http.max_retries
                   THEN [http EXCEPT !.attempt = attempt, !.calls = calls]
                   ELSE FinishCall(http, calls, "raise")
    /\ UNCHANGED pipeline
    /\ UNCHANGED exceptHttp

NextHttp ==
    \/ \E resp \in GdeltResponses : GdeltRequest(resp)
    \/ \E resp \in CoinGeckoResponses : CoinGeckoRequest(resp)
    \/ \E resp \in XaiResponses : XaiRequest(resp)

SpecHttp == InitHttp /\ [][NextHttp]_vars


\* ---------------------------------------------------------------- LLM clients' output-token auto-scaling
\* the configured max_tokens and the configured cap (0: no cap configured)
TokenChoices == {32, 400, 1200}
CapChoices == {0, 1000}

\* what one request of a client can come to: parseable JSON; text that does
\* not parse; a MAX_TOKENS finish with text that does not parse, or with text
\* that does; no text; an exception of the API call
LlmResults == {"ok", "json_error", "truncated", "truncated_ok", "empty", "api_error"}

Max(a, b) == IF a >= b THEN a ELSE b
Min(a, b) == IF a <= b THEN a ELSE b

\* cap = int(self.max_tokens_cap) if self.max_tokens_cap is not None else 4096
\* (GeminiClient: max_output_tokens_cap, else 2048)
CapOf(client, configured) ==
    IF configured # 0 THEN configured
    ELSE IF client = "gemini" THEN 2048 ELSE 4096

\* max_out = max(64, int(self.max_tokens))
InitialMaxOut(max_tokens) == Max(64, max_tokens)

\* max_out = min(cap, max_out + 400)
Scale(cap, max_out) == Min(cap, max_out + 400)

\* the request just sent, entered in the log
Sent(c, res) ==
    [c EXCEPT !.n = @ + 1, !.prev = c.last,
              !.last = [max_tokens |-> c.max_out, result |-> res, model |-> c.model]]

ReturnResult(c) == [c EXCEPT !.pc = "done", !.outcome = "result"]
RaiseError(c) == [c EXCEPT !.pc = "done", !.outcome = "raise"]

InitLlmCall ==
    /\ PipelineIdle
    /\ limiter = NoLimiter
    /\ hrun = NoHrun
    /\ http = NoHttp
    /\ gfetch = NoGfetch
    /\ upserts = NoUpserts
    /\ factors = NoFactors
    /\ rollup = NoRollup
    /\ qbuild = NoQbuild
    /\ resolver = NoResolver
    /\ urlcheck = NoUrlcheck
    /\ retry = NoRetry
    /\ equiv = NoEquiv
    /\ \E c \in {"openai", "gemini", "xai"}, auto \in BOOLEAN, t \in TokenChoices,
          cap \in CapChoices, m \in 0..MaxRetries, fb \in BOOLEAN :
          /\ c = "xai" <=> m >= 1
          /\ c # "openai" => ~fb
          /\ llm_call = [NoLlmCall EXCEPT !.client = c, !.pc = "call",
                                          !.auto_scale_max_tokens = auto, !.max_tokens = t,
                                          !.cap = CapOf(c, cap), !.max_retries = m,
                                          !.fallback_model = fb, !.model = "primary",
                                          !.max_out = InitialMaxOut(t), !.attempt = 1]

\* one pass of the while loop of _run_with_model; an exception of the primary
\* model starts _run_with_model(self.fallback_model)
OpenAiRequest(res) ==
    /\ llm_call.client = "openai" /\ llm_call.pc = "call"
    /\ LET c == Sent(llm_call, res)
           fails == res \in {"json_error", "truncated", "empty"}
           scales == fails /\ c.auto_scale_max_tokens /\ c.max_out < c.cap
       IN  llm_call' =
               IF res \in {"ok", "truncated_ok"} THEN ReturnResult(c)
               ELSE IF scales THEN [c EXCEPT !.max_out = Scale(c.cap, @)]
               ELSE IF c.fallback_model /\ c.model = "primary"
               THEN [c EXCEPT !.model = "fallback", !.max_out = InitialMaxOut(c.max_tokens)]
               ELSE RaiseError(c)
    /\ UNCHANGED pipeline
    /\ UNCHANGED exceptLlmCall

\* one pass of the auto-scaling loop of GeminiClient.summarize_and_score
GeminiRequest(res) ==
    /\ llm_call.client = "gemini" /\ llm_call.pc = "call"
    /\ LET c == Sent(llm_call, res)
           scales == /\ res \in {"truncated", "truncated_ok"}
                     /\ c.auto_scale_max_tokens /\ c.max_out < c.cap
                     /\ Scale(c.cap, c.max_out) > c.max_out
       IN  llm_call' =
               IF res = "api_error" THEN RaiseError(c)
               ELSE IF scales THEN [c EXCEPT !.max_out = Scale(c.cap, @)]
               ELSE IF res \in {"ok", "truncated_ok"} THEN ReturnResult(c)
               ELSE RaiseError(c)
    /\ UNCHANGED pipeline
    /\ UNCHANGED exceptLlmCall

\* one pass of `for attempt in range(1, self.max_retries + 1)` of
\* XAIClient.summarize_and_score
XaiSummarize(res) ==
    /\ llm_call.client = "xai" /\ llm_call.pc = "call"
    /\ LET c == Sent(llm_call, res)
           fails == res \in {"json_error", "truncated", "empty"}
           scales == fails /\ c.auto_scale_max_tokens /\ c.max_out < c.cap
       IN  llm_call' =
               IF res \in {"ok", "truncated_ok"} THEN ReturnResult(c)
               ELSE IF scales /\ c.attempt < c.max_retries
               THEN [c EXCEPT !.max_out = Scale(c.cap, @), !.attempt = @ + 1]
               ELSE IF scales THEN RaiseError([c EXCEPT !.max_out = Scale(c.cap, @)])
               ELSE RaiseError(c)
    /\ UNCHANGED pipeline
    /\ UNCHANGED exceptLlmCall

NextLlmCall ==
    \/ \E res \in LlmResults : OpenAiRequest(res)
    \/ \E res \in LlmResults : GeminiRequest(res)
    \/ \E res \in LlmResults : XaiSummarize(res)

SpecLlmCall == InitLlmCall /\ [][NextLlmCall]_vars


\* ---------------------------------------------------------------- GdeltClient.fetch_documents
\* instants are counted in quarter days from a UTC midnight
TicksPerDay == 4

\* a floor that leaves the instant as it is
_floor_day_identity(ts) == ts

\* datetime(ts_utc.year, ts_utc.month, ts_utc.day, tzinfo=timezone.utc)
_floor_day_utc(ts) == ts - (ts % TicksPerDay)

\* the while loop of _daily_ranges_utc_full_days, from day on
RECURSIVE DayLoop(_, _, _, _)
DayLoop(start, end, day, e_day_excl) ==
    IF ~(day < e_day_excl) THEN <<>>
    ELSE LET next_day == day + TicksPerDay
             q_start == Max(start, day)
             q_end == Min(end, next_day)
         IN  (IF q_start < q_end
              THEN <<[q_start |-> q_start, q_end |-> q_end, batch_day_start |-> day]>>
              ELSE <<>>) \o DayLoop(start, end, next_day, e_day_excl)

_daily_ranges_utc_full_days(start, end) ==
    LET s_day == _floor_day_utc(start)
        e_day_excl == _floor_day_utc(end)
    IN  IF s_day >= e_day_excl THEN <<>> ELSE DayLoop(start, end, s_day, e_day_excl)

\* n documents of a day slice, each with published_at = batch_day_start
DayDocs(sl, n) == [i \in 1..n |-> [published_at |-> sl.batch_day_start, query_start |-> sl.q_start,
                                   query_end |-> sl.q_end]]

InitGdelt ==
    /\ PipelineIdle
    /\ limiter = NoLimiter
    /\ hrun = NoHrun
    /\ http = NoHttp
    /\ llm_call = NoLlmCall
    /\ upserts = NoUpserts
    /\ factors = NoFactors
    /\ rollup = NoRollup
    /\ qbuild = NoQbuild
    /\ resolver = NoResolver
    /\ urlcheck = NoUrlcheck
    /\ retry = NoRetry
    /\ equiv = NoEquiv
    /\ \E start \in 0..MaxTime, end \in 0..MaxTime, now \in 0..MaxTime :
          /\ start <= end
          /\ gfetch = [NoGfetch EXCEPT !.pc = "start", !.start = start, !.end = end, !.now = now]

\* the entry of fetch_documents: the guard on a future range, then the slices
GdeltFetchStart ==
    /\ gfetch.pc = "start"
    /\ gfetch' =
          IF gfetch.start > gfetch.now \/ gfetch.end > gfetch.now
          THEN [gfetch EXCEPT !.pc = "done"]
          ELSE LET day_slices == _daily_ranges_utc_full_days(gfetch.start, gfetch.end)
               IN  [gfetch EXCEPT !.slices = day_slices,
                                  !.slice = IF day_slices = <<>> THEN 0 ELSE 1,
                                  !.pc = IF day_slices = <<>> THEN "done" ELSE "query"]
    /\ UNCHANGED pipeline
    /\ UNCHANGED exceptGfetch

\* one pass of `for q_start, q_end, batch_day_start in day_slices`:
\* data is None (below 0), or the number of articles that become documents
GdeltQuery(data) ==
    /\ gfetch.pc = "query"
    /\ LET sl == gfetch.slices[gfetch.slice]
           g == [gfetch EXCEPT !.queries = Append(@, sl),
                               !.results = IF data < 0 THEN @ ELSE @ \o DayDocs(sl, data)]
       IN  gfetch' = IF gfetch.slice < Len(gfetch.slices)
                     THEN [g EXCEPT !.slice = @ + 1]
                     ELSE [g EXCEPT !.pc = "done"]
    /\ UNCHANGED pipeline
    /\ UNCHANGED exceptGfetch

NextGdelt ==
    \/ GdeltFetchStart
    \/ \E data \in (0 - 1)..MaxArticles : GdeltQuery(data)

SpecGdelt == InitGdelt /\ [][NextGdelt]_vars


\* ---------------------------------------------------------------- concurrent statistics upserts
\* the calls a thread may issue, by the columns the call bumps in order
StatCalls == {"record_harvest_stored", "record_harvest", "llm_accepted", "llm_rejected"}

ColumnsOf(op) ==
    CASE op = "record_harvest_stored" -> <<"harvested_total", "stored_total">>
      [] op = "record_harvest" -> <<"harvested_total">>
      [] op = "llm_accepted" -> <<"llm_accepted">>
      [] op = "llm_rejected" -> <<"llm_rejected">>

\* the (asset, domain) all the calls are for
StatAsset == "BTC"
StatDomain == HostOf(1)

\* a thread about to run the first statement of _upsert_counter for its next column
NewCaller(op) == [op |-> op, cols |-> ColumnsOf(op), stmt |-> "insert", snap |-> 0 - 1,
                  st |-> "running"]

InitUpserts ==
    /\ PipelineIdle
    /\ limiter = NoLimiter
    /\ hrun = NoHrun
    /\ http = NoHttp
    /\ llm_call = NoLlmCall
    /\ gfetch = NoGfetch
    /\ factors = NoFactors
    /\ rollup = NoRollup
    /\ qbuild = NoQbuild
    /\ resolver = NoResolver
    /\ urlcheck = NoUrlcheck
    /\ retry = NoRetry
    /\ equiv = NoEquiv
    /\ \E n \in 1..MaxCallers : \E ops \in [1..n -> StatCalls] :
          upserts = [thread |-> [t \in 1..n |-> NewCaller(ops[t])], version |-> 0]

\* con.execute(...) starts: the statement's transaction sees the commits so far
StmtBegin(t) ==
    /\ upserts.thread[t].st = "running" /\ upserts.thread[t].snap < 0
    /\ upserts' = [upserts EXCEPT !.thread[t].snap = upserts.version]
    /\ UNCHANGED pipeline
    /\ UNCHANGED exceptUpserts

\* the statement writes the row and commits; DuckDB (optimistic concurrency
\* control) fails it with a conflict error when the row was written by a
\* transaction that committed after this one began
StmtExecute(t) ==
    /\ upserts.thread[t].st = "running" /\ upserts.thread[t].snap >= 0
    /\ LET th == upserts.thread[t]
           conflict == upserts.version > th.snap
           noop == th.stmt = "insert" /\ th.snap >= 1
           rest == Tail(th.cols)
       IN  IF noop
           THEN /\ upserts' = [upserts EXCEPT !.thread[t].stmt = "update", !.thread[t].snap = 0 - 1]
                /\ UNCHANGED store
           ELSE IF conflict
           THEN /\ upserts' = [upserts EXCEPT !.thread[t].st = "raised"]
                /\ UNCHANGED store
           ELSE IF th.stmt = "insert"
           THEN /\ upserts' = [upserts EXCEPT !.thread[t].stmt = "update", !.thread[t].snap = 0 - 1,
                                              !.version = @ + 1]
                /\ news_domain_stats' = InsertZeroRow(news_domain_stats, StatAsset, StatDomain)
                /\ UNCHANGED <<url_harvests, summarized_articles, rejections, llm_votes, uhSeq>>
           ELSE /\ upserts' = [upserts EXCEPT !.thread[t].cols = rest, !.thread[t].stmt = "insert",
                                              !.thread[t].snap = 0 - 1,
                                              !.thread[t].st = IF rest = <<>> THEN "returned" ELSE "running",
                                              !.version = @ + 1]
                /\ news_domain_stats' = UpdateCounter(news_domain_stats, StatAsset, StatDomain,
                                                      Head(th.cols), 1)
                /\ UNCHANGED <<url_harvests, summarized_articles, rejections, llm_votes, uhSeq>>
    /\ UNCHANGED <<harvest, proc, clients, ensembleCall>>
    /\ UNCHANGED exceptUpserts

NextUpserts ==
    \/ \E t \in 1..Len(upserts.thread) : StmtBegin(t)
    \/ \E t \in 1..Len(upserts.thread) : StmtExecute(t)

SpecUpserts == InitUpserts /\ [][NextUpserts]_vars


\* ---------------------------------------------------------------- ComputeMarketFactors.execute
\* Optional[float]: <<>> is None, <<v>> a value.  Returns are integers in
\* units of 1e-3, sentiment, alpha, winsor_alpha and every normalised value in
\* hundredths (100 is 1.0); a division rounds to the unit.

\* --ema-len, --window-sent, --norm, --winsor-alpha, --alpha of `market factors`
EmaLenChoices == {0, 1, 3}
WindowChoices == {2, 90}
NormChoices == {"zscore", "winsor", "minmax"}
WinsorAlpha == 5
AlphaChoices == {25, 150}

\* rows of v_daily_returns and of v_daily_sentiment
RetChoices == {<<>>, <<0 - 8>>, <<16>>}
SentChoices == {<<>>, <<30>>, <<0 - 50>>}

RECURSIVE SumSeq(_)
SumSeq(s) == IF s = <<>> THEN 0 ELSE Head(s) + SumSeq(Tail(s))

SeqMin(s) == CHOOSE x \in {s[i] : i \in 1..Len(s)} : \A j \in 1..Len(s) : x <= s[j]
SeqMax(s) == CHOOSE x \in {s[i] : i \in 1..Len(s)} : \A j \in 1..Len(s) : x >= s[j]

\* floor of the square root
Isqrt(x) == CHOOSE k \in 0..(100 * MaxDays) : k * k <= x /\ x < (k + 1) * (k + 1)

\* ComputeMarketFactors._ema, the loop from position i on
RECURSIVE EmaLoop(_, _, _, _, _)
EmaLoop(series, length, i, ema_val, out) ==
    IF i > Len(series) THEN out
    ELSE LET v == series[i] IN
         IF v = <<>> THEN EmaLoop(series, length, i + 1, ema_val, Append(out, ema_val))
         ELSE LET nv == IF ema_val = <<>> THEN v[1]
                        ELSE ema_val[1] + (2 * (v[1] - ema_val[1])) \div (length + 1)
              IN  EmaLoop(series, length, i + 1, <<nv>>, Append(out, <<nv>>))

\* ComputeMarketFactors._ema (length > 0; execute raises otherwise)
_ema(series, length) == EmaLoop(series, length, 1, <<>>, <<>>)

\* ComputeMarketFactors._winsorize
_winsorize(values, alpha) ==
    IF values = <<>> \/ alpha <= 0 THEN values
    ELSE LET xs == SortSeq(values, LAMBDA a, b : a < b)
             n  == Len(xs)
             lo == xs[Max(0, Min(n - 1, (alpha * (n - 1)) \div 100)) + 1]
             hi == xs[Max(0, Min(n - 1, ((100 - alpha) * (n - 1)) \div 100)) + 1]
         IN  [i \in 1..n |-> Min(hi, Max(lo, values[i]))]

\* buf_vals after position i: the last `window` non-None values of series[1..i]
BufVals(series, window, i) ==
    LET some == SelectSeq(SubSeq(series, 1, i), LAMBDA o : o # <<>>)
        vals == [j \in 1..Len(some) |-> some[j][1]]
    IN  IF Len(vals) > window THEN SubSeq(vals, Len(vals) - window + 1, Len(vals)) ELSE vals

\* (x - mean(vals)) / pstdev(vals), None when the deviation is zero
ZScore(x, vals) ==
    LET n == Len(vals)
        S == SumSeq(vals)
        Q == SumSeq([j \in 1..n |-> vals[j] * vals[j]])
        D == n * Q - S * S
        num == n * x - S
        z == Isqrt((num * num * 10000) \div D)
    IN  IF D = 0 THEN <<>> ELSE IF num < 0 THEN <<0 - z>> ELSE <<z>>

\* ComputeMarketFactors._normalize_series without weights, min_points = 2
_normalize_series(series, window, method, winsor_alpha) ==
    [i \in 1..Len(series) |->
        LET v == series[i]
            buf_vals == BufVals(series, window, i)
        IN  IF Len(buf_vals) >= 2
            THEN IF method = "minmax"
                 THEN LET mn == SeqMin(buf_vals)
                          mx == SeqMax(buf_vals)
                      IN  IF mn = mx \/ v = <<>> THEN <<>>
                          ELSE <<((v[1] - mn) * 200) \div (mx - mn) - 100>>
                 ELSE LET vals == IF method = "winsor" THEN _winsorize(buf_vals, winsor_alpha)
                                  ELSE buf_vals
                      IN  IF v = <<>> THEN <<>>
                          ELSE ZScore(IF method = "winsor"
                                      THEN Min(Max(v[1], SeqMin(vals)), SeqMax(vals))
                                      ELSE v[1], vals)
            ELSE <<>>]

\* step 7 of execute: the blend of the two normalised series
PAlpha(er_n, s_n, alpha) ==
    IF er_n = <<>> /\ s_n = <<>> THEN <<>>
    ELSE IF er_n = <<>> THEN s_n
    ELSE IF s_n = <<>> THEN er_n
    ELSE <<((100 - alpha) * er_n[1] + alpha * s_n[1]) \div 100>>

\* steps 1 to 8 of execute: the MarketFactorsDaily rows (the rolling risk
\* columns, computed from the returns alone, are left out)
FactorRows(f) ==
    LET days == [i \in 1..Len(f.returns) |-> f.returns[i].day]
        ret_vals == [i \in 1..Len(f.returns) |-> f.returns[i].ret]
        exp_return == _ema(ret_vals, f.ema_len)
        sentiment_mean == [i \in 1..Len(days) |-> f.sent_map[days[i]]]
        sentiment_norm == _normalize_series(sentiment_mean, f.window_sent, f.norm_method, f.winsor_alpha)
        exp_return_norm == _normalize_series(exp_return, f.window_sent, "zscore", f.winsor_alpha)
    IN  [i \in 1..Len(days) |->
            [day |-> days[i], ret_1d |-> ret_vals[i], exp_return_30d |-> exp_return[i],
             sentiment_mean |-> sentiment_mean[i], sentiment_norm |-> sentiment_norm[i],
             p_alpha |-> PAlpha(exp_return_norm[i], sentiment_norm[i], f.alpha),
             alpha |-> f.alpha]]

\* DuckDBMarketRepository.fetch_daily_returns: one row per stored day, ORDER BY date ASC
fetch_daily_returns(days, ret) ==
    LET sorted == SortSeq(days, LAMBDA a, b : a < b)
    IN  [i \in 1..Len(sorted) |-> [day |-> sorted[i], ret |-> ret[sorted[i]]]]

\* the `market factors` command before execute is called
InitFactors ==
    /\ PipelineIdle
    /\ limiter = NoLimiter
    /\ hrun = NoHrun
    /\ http = NoHttp
    /\ llm_call = NoLlmCall
    /\ gfetch = NoGfetch
    /\ upserts = NoUpserts
    /\ rollup = NoRollup
    /\ qbuild = NoQbuild
    /\ resolver = NoResolver
    /\ urlcheck = NoUrlcheck
    /\ retry = NoRetry
    /\ equiv = NoEquiv
    /\ \E n \in 1..MaxDays : \E ret \in [1..n -> RetChoices], sent \in [1..n -> SentChoices],
          alpha \in AlphaChoices, ema_len \in EmaLenChoices, window_sent \in WindowChoices,
          norm \in NormChoices, persist \in BOOLEAN :
          factors = [pc |-> "ready",
                     returns |-> fetch_daily_returns([i \in 1..n |-> n + 1 - i], ret),
                     sent_map |-> sent, alpha |-> alpha, ema_len |-> ema_len,
                     window_sent |-> window_sent, norm_method |-> norm,
                     winsor_alpha |-> WinsorAlpha, persist |-> persist,
                     rows |-> <<>>, market_factors_daily |-> <<>>]

\* ComputeMarketFactors.execute: _ema raises on a length <= 0, else the rows
\* are built and, unless it is a dry run, upserted into the empty table
ExecuteFactors ==
    /\ factors.pc = "ready"
    /\ IF factors.ema_len <= 0
       THEN factors' = [factors EXCEPT !.pc = "raised"]
       ELSE LET rows == FactorRows(factors)
            IN  factors' = [factors EXCEPT !.pc = "done", !.rows = rows,
                                           !.market_factors_daily =
                                               IF factors.persist THEN rows ELSE <<>>]
    /\ UNCHANGED pipeline
    /\ UNCHANGED exceptFactors

NextFactors == ExecuteFactors

SpecFactors == InitFactors /\ [][NextFactors]_vars

\* ---------------------------------------------------------------- daily rollup
\* A snapshot is [observed_at, price, market_cap, volume_24h]: observed_at a
\* UTC time in ticks, price a float (CoinGecko's `price or 0.0`), the other
\* two Optional[float].

\* float("inf")
Infinity == 1000

\* the points of a market_chart/range response, in the order it lists them
SnapshotTimes == {d * TicksPerDay + h : d \in 0..(MaxDays - 1), h \in {0, 1}}
SnapshotChoices ==
    [observed_at : SnapshotTimes, price : {0, 2, 3}, market_cap : {<<>>, <<7>>},
     volume_24h : {<<>>, <<4>>}]

\* rollup_utils._utc_date, and observed_at.date() of a UTC datetime
_utc_date(ts) == ts \div TicksPerDay

\* x or y on Optional[float]: None and 0.0 are falsy
Or(x, y) == IF x = <<>> \/ x = <<0>> THEN y ELSE x[1]

\* list.sort / sorted on <<key, item>> pairs: stable, by key
RECURSIVE InsertByKey(_, _)
InsertByKey(x, sorted) ==
    IF sorted = <<>> THEN <<x>>
    ELSE IF x[1] < Head(sorted)[1] THEN <<x>> \o sorted
    ELSE <<Head(sorted)>> \o InsertByKey(x, Tail(sorted))

RECURSIVE SortPairs(_)
SortPairs(s) ==
    IF s = <<>> THEN <<>>
    ELSE InsertByKey(s[Len(s)], SortPairs(SubSeq(s, 1, Len(s) - 1)))

SortedByKey(s, key(_)) ==
    LET sorted == SortPairs([i \in 1..Len(s) |-> <<key(s[i]), s[i]>>])
    IN  [i \in 1..Len(s) |-> sorted[i][2]]

\* the keys of the per-day dict, in insertion order
RECURSIVE DictDays(_)
DictDays(snapshots) ==
    IF snapshots = <<>> THEN <<>>
    ELSE LET before == DictDays(SubSeq(snapshots, 1, Len(snapshots) - 1))
             d == _utc_date(snapshots[Len(snapshots)].observed_at)
         IN  IF \E i \in 1..Len(before) : before[i] = d THEN before ELSE Append(before, d)

\* the snapshots of day d, in input order
Bucket(snapshots, d) == SelectSeq(snapshots, LAMBDA x : _utc_date(x.observed_at) = d)

\* rollup_daily_candles: the candle of one bucket
RollupCandle(d, arr) ==
    LET arr_sorted == SortedByKey(arr, LAMBDA x : x.observed_at)
        prices == [i \in 1..Len(arr_sorted) |-> arr_sorted[i].price]
        caps == SelectSeq(arr_sorted, LAMBDA x : x.market_cap # <<>>)
    IN  [day |-> d, open |-> <<prices[1]>>, high |-> <<SeqMax(prices)>>,
         low |-> <<SeqMin(prices)>>, close |-> <<prices[Len(prices)]>>,
         market_cap |-> IF caps = <<>> THEN <<>> ELSE caps[Len(caps)].market_cap,
         volume |-> <<SumSeq([i \in 1..Len(arr_sorted) |-> Or(arr_sorted[i].volume_24h, 0)])>>]

\* rollup_utils.rollup_daily_candles
rollup_daily_candles(snapshots) ==
    LET days == DictDays(snapshots)
        candles == [i \in 1..Len(days) |-> RollupCandle(days[i], Bucket(snapshots, days[i]))]
    IN  SortedByKey(candles, LAMBDA c : c.day)

\* IngestHistoryRange._to_daily_candles: daily_data[day] after the bucket
RECURSIVE DailyData(_)
DailyData(arr) ==
    IF Len(arr) = 1
    THEN [open |-> <<arr[1].price>>, high |-> <<arr[1].price>>, low |-> <<arr[1].price>>,
          close |-> <<arr[1].price>>, market_cap |-> arr[1].market_cap,
          volume |-> arr[1].volume_24h, count |-> 1]
    ELSE LET data == DailyData(SubSeq(arr, 1, Len(arr) - 1))
             snapshot == arr[Len(arr)]
         IN  [open |-> data.open,
              high |-> <<Max(Or(data.high, 0), Or(<<snapshot.price>>, 0))>>,
              low |-> <<Min(Or(data.low, Infinity), Or(<<snapshot.price>>, Infinity))>>,
              close |-> <<snapshot.price>>,
              market_cap |-> IF snapshot.market_cap = <<>> \/ snapshot.market_cap = <<0>>
                             THEN data.market_cap ELSE snapshot.market_cap,
              volume |-> <<Or(data.volume, 0) + Or(snapshot.volume_24h, 0)>>,
              count |-> data.count + 1]

\* vals["volume"] / vals["count"] on a None volume: TypeError
VolumeMissing(snapshots) ==
    LET days == DictDays(snapshots)
    IN  \E i \in 1..Len(days) : DailyData(Bucket(snapshots, days[i])).volume = <<>>

\* IngestHistoryRange._to_daily_candles when no volume is None
_to_daily_candles(snapshots) ==
    LET days == DictDays(snapshots)
        vals == [i \in 1..Len(days) |-> DailyData(Bucket(snapshots, days[i]))]
    IN  [i \in 1..Len(days) |->
            [day |-> days[i], open |-> vals[i].open, high |-> vals[i].high,
             low |-> vals[i].low, close |-> vals[i].close,
             market_cap |-> vals[i].market_cap,
             volume |-> <<vals[i].volume[1] \div vals[i].count>>]]

\* the snapshots a provider returned for a range
InitRollup ==
    /\ PipelineIdle
    /\ limiter = NoLimiter
    /\ hrun = NoHrun
    /\ http = NoHttp
    /\ llm_call = NoLlmCall
    /\ gfetch = NoGfetch
    /\ upserts = NoUpserts
    /\ factors = NoFactors
    /\ qbuild = NoQbuild
    /\ resolver = NoResolver
    /\ urlcheck = NoUrlcheck
    /\ retry = NoRetry
    /\ equiv = NoEquiv
    /\ \E n \in 1..MaxSnapshots : \E snapshots \in [1..n -> SnapshotChoices] :
          rollup = [pc |-> "ready", snapshots |-> snapshots, candles |-> <<>>]

\* rollup_daily_candles(snapshots), its list handed on
RollupDaily ==
    /\ rollup.pc = "ready"
    /\ rollup' = [rollup EXCEPT !.pc = "rolled", !.candles = rollup_daily_candles(rollup.snapshots)]
    /\ UNCHANGED pipeline
    /\ UNCHANGED exceptRollup

\* IngestHistoryRange.execute from step 4: _to_daily_candles, then upsert_candles
IngestHistory ==
    /\ rollup.pc = "ready"
    /\ IF VolumeMissing(rollup.snapshots)
       THEN rollup' = [rollup EXCEPT !.pc = "raised"]
       ELSE rollup' = [rollup EXCEPT !.pc = "ingested",
                                     !.candles = _to_daily_candles(rollup.snapshots)]
    /\ UNCHANGED pipeline
    /\ UNCHANGED exceptRollup

NextRollup == RollupDaily \/ IngestHistory

SpecRollup == InitRollup /\ [][NextRollup]_vars

\* ---------------------------------------------------------------- news queries
\* A query is the sequence of its blocks, each [kind, terms]; the blocks are
\* joined with " AND " (GDELT) or concatenated (Google News RSS).

\* asset symbols as typed on the command line, the config file's sets
SymbolChoices == {"BTC", "btc", "SOL"}
ConfigSymbols == {"BTC", "SOL"}

\* str.upper
SymUpper(sym) == IF sym = "btc" THEN "BTC" ELSE IF sym = "sol" THEN "SOL" ELSE sym

\* str.lower
SymLower(sym) == IF sym = "BTC" THEN "btc" ELSE IF sym = "SOL" THEN "sol" ELSE sym

\* search_query._norm_terms: the first of the terms equal up to case
RECURSIVE _norm_terms(_)
_norm_terms(terms) ==
    IF terms = <<>> THEN <<>>
    ELSE LET before == _norm_terms(SubSeq(terms, 1, Len(terms) - 1))
             t == terms[Len(terms)]
         IN  IF \E i \in 1..Len(before) : SymLower(before[i]) = SymLower(t)
             THEN before ELSE Append(before, t)

\* search_query._symbol_synonyms
_symbol_synonyms(sym) ==
    _norm_terms(<<sym, SymUpper(sym), SymLower(sym)>>
                \o (IF SymUpper(sym) = "BTC" THEN <<"Bitcoin">> ELSE <<>>)
                \o (IF SymUpper(sym) = "SOL" THEN <<"Solana">> ELSE <<>>))

\* QueryBuildParams.crypto_context_terms
CryptoContext == <<"crypto", "cryptocurrency", "blockchain", "token", "defi", "nft">>

\* search_query.build_boolean_core with the null registry (no aliases, no negatives)
build_boolean_core(asset_symbol, require_crypto_context) ==
    <<[kind |-> "positive", terms |-> _symbol_synonyms(asset_symbol)]>>
    \o (IF require_crypto_context THEN <<[kind |-> "context", terms |-> CryptoContext]>> ELSE <<>>)

\* NewsQueryBuilder.build_for_gdelt: QueryBuildParams() requires the context
build_for_gdelt(asset_symbol) == build_boolean_core(asset_symbol, TRUE)

\* GdeltClient._should_use_crypto_context, GoogleNewsRssClient._should_use_crypto_context
_should_use_crypto_context(asset_symbol, major, enforce) ==
    IF SymUpper(asset_symbol) \in enforce THEN TRUE
    ELSE IF SymUpper(asset_symbol) \in major THEN FALSE
    ELSE TRUE

\* GoogleNewsRssClient._build_query
_build_query(asset_symbol, major, enforce) ==
    <<[kind |-> "positive",
       terms |-> <<SymUpper(asset_symbol)>>
                 \o (IF SymUpper(asset_symbol) = "BTC" THEN <<"\"Bitcoin\"">> ELSE <<>>)]>>
    \o (IF _should_use_crypto_context(asset_symbol, major, enforce)
        THEN <<[kind |-> "context", terms |-> CryptoContext]>> ELSE <<>>)
    \o <<[kind |-> "date", terms |-> <<"after", "before">>]>>

\* NewsSourceFactory.create_sources: both adapters get the config's two sets
InitQuery ==
    /\ PipelineIdle
    /\ limiter = NoLimiter
    /\ hrun = NoHrun
    /\ http = NoHttp
    /\ llm_call = NoLlmCall
    /\ gfetch = NoGfetch
    /\ upserts = NoUpserts
    /\ factors = NoFactors
    /\ rollup = NoRollup
    /\ resolver = NoResolver
    /\ urlcheck = NoUrlcheck
    /\ retry = NoRetry
    /\ equiv = NoEquiv
    /\ \E sym \in SymbolChoices, major \in SUBSET ConfigSymbols, enforce \in SUBSET ConfigSymbols :
          qbuild = [pc |-> "ready", asset_symbol |-> sym, major |-> major, enforce |-> enforce,
                    adapter |-> "none", query |-> <<>>]

\* GdeltClient.fetch_documents up to the query of its requests
GdeltBuildQuery ==
    /\ qbuild.pc = "ready"
    /\ qbuild' = [qbuild EXCEPT !.pc = "sent", !.adapter = "gdelt",
                                !.query = build_for_gdelt(qbuild.asset_symbol)]
    /\ UNCHANGED pipeline
    /\ UNCHANGED exceptQbuild

\* GoogleNewsRssClient.fetch_documents up to the query of its request
RssBuildQuery ==
    /\ qbuild.pc = "ready"
    /\ qbuild' = [qbuild EXCEPT !.pc = "sent", !.adapter = "google_rss",
                                !.query = _build_query(qbuild.asset_symbol, qbuild.major,
                                                       qbuild.enforce)]
    /\ UNCHANGED pipeline
    /\ UNCHANGED exceptQbuild

NextQuery == GdeltBuildQuery \/ RssBuildQuery

SpecQuery == InitQuery /\ [][NextQuery]_vars

\* ---------------------------------------------------------------- GoogleNewsResolver
\* A link is [host, sorry, cont, us]: the host, whether the path holds
\* "/sorry", the percent-encoded continue= parameter by the host it names
\* ("none" without the parameter, "empty" for continue=) and whether
\* _append_us_params has added hl, gl and ceid.  A host of "" is the empty
\* string, "[" a URL on which urlparse raises.

Link(host, sorry, cont) == [host |-> host, sorry |-> sorry, cont |-> cont, us |-> FALSE]

ConsentHost == "consent.google.com"
NewsHost == "news.google.com"
PublisherHost == "publisher.example"

\* the URLs resolve is called with
LinkChoices ==
    {Link("", FALSE, "none"), Link("[", FALSE, "none"),
     Link(ConsentHost, FALSE, "none"), Link(ConsentHost, FALSE, "empty"),
     Link(ConsentHost, FALSE, NewsHost), Link(ConsentHost, FALSE, PublisherHost),
     Link(NewsHost, FALSE, "none"), Link(PublisherHost, FALSE, "none"),
     Link("www.google.com", TRUE, "none")}

\* where the GET of a news URL ends: an exception, a response without url,
\* or the final URL after the redirects
FinalChoices == {"raise", "nourl", PublisherHost, NewsHost, ConsentHost, "www.google.com"}

\* what the headless strategy gives: an exception, None, or a URL
HeadlessChoices == {"raise", "none", PublisherHost}

\* _is_consent
_is_consent(u) == u.host \in {ConsentHost, "consent.yahoo.com"}

\* _is_news
_is_news(u) == u.host = NewsHost

\* parse_qs(...).get("continue", [None])[0]: blank values are dropped
ContinueOf(u) == IF u.cont \in {"none", "empty"} THEN <<>> ELSE <<u.cont>>

\* unquote(cont)
Unquote(cont) == Link(cont, FALSE, "none")

\* _is_google_interstitial
_is_google_interstitial(u) ==
    IF u.host \notin {ConsentHost, NewsHost, "www.google.com"} THEN FALSE
    ELSE IF u.sorry THEN TRUE
    ELSE ContinueOf(u) # <<>> /\ _is_news(Unquote(ContinueOf(u)[1]))

\* _append_us_params
_append_us_params(u) == [u EXCEPT !.us = TRUE]

\* GoogleNewsResolver._is_headless_available
_is_headless_available(r) == r.headless_resolve \/ r.playwright

\* GoogleNewsResolver._resolve_headless: an exception gives None
_resolve_headless(r) ==
    IF r.hres \in {"raise", "none"} THEN <<>> ELSE <<Link(r.hres, FALSE, "none")>>

\* a resolver that never follows the news URL
_resolve_news_unfollowed(r, news_url) == <<news_url>>

\* GoogleNewsResolver._resolve_news_to_publisher
_resolve_news_to_publisher(r, news_url) ==
    LET u2 == _append_us_params(news_url)
        final == IF r.final = "nourl" THEN u2
                 ELSE Link(r.final, r.final = "www.google.com", "none")
    IN  IF r.final = "raise" THEN <<news_url>>
        ELSE IF ~_is_news(final) /\ ~_is_consent(final) /\ ~_is_google_interstitial(final)
        THEN <<final>>
        ELSE IF _is_headless_available(r) THEN _resolve_headless(r)
        ELSE <<news_url>>

\* GoogleNewsResolver.resolve from step 2 on, for the URL u
ResolveFrom(r, u) ==
    IF _is_news(u)
    THEN LET res == _resolve_news_to_publisher(r, u)
         IN  [res |-> res,
              outcome |-> IF res # <<>> /\ ~_is_news(res[1]) THEN "resolved_publisher"
                          ELSE "fallback_news"]
    ELSE IF ~_is_consent(u) /\ ~_is_google_interstitial(u)
    THEN [res |-> <<u>>, outcome |-> "passthrough"]
    ELSE IF _is_headless_available(r)
    THEN LET res == _resolve_headless(r)
         IN  [res |-> res, outcome |-> IF res # <<>> THEN "headless_resolved" ELSE "headless_failed"]
    ELSE [res |-> <<>>, outcome |-> "headless_unavailable"]

\* a try block whose except clause leaves the outcome at its initial value
ResolveTryUntagged(r) ==
    IF r.url.host = "[" THEN [res |-> <<>>, outcome |-> "unknown"]
    ELSE IF _is_consent(r.url)
    THEN IF ContinueOf(r.url) = <<>>
         THEN [res |-> <<>>, outcome |-> "consent_missing_continue"]
         ELSE LET u == Unquote(ContinueOf(r.url)[1])
              IN  IF r.headless_resolve \/ ~r.resolve_to_publisher
                  THEN [res |-> <<u>>, outcome |-> "returned_news_url"]
                  ELSE ResolveFrom(r, u)
    ELSE ResolveFrom(r, r.url)

\* GoogleNewsResolver.resolve inside the try block
ResolveTry(r) ==
    IF r.url.host = "[" THEN [res |-> <<>>, outcome |-> "error"]
    ELSE IF _is_consent(r.url)
    THEN IF ContinueOf(r.url) = <<>>
         THEN [res |-> <<>>, outcome |-> "consent_missing_continue"]
         ELSE LET u == Unquote(ContinueOf(r.url)[1])
              IN  IF r.headless_resolve \/ ~r.resolve_to_publisher
                  THEN [res |-> <<u>>, outcome |-> "returned_news_url"]
                  ELSE ResolveFrom(r, u)
    ELSE ResolveFrom(r, r.url)

\* a resolver as GoogleNewsRssClient or a test constructs it, the URL of the
\* call and what the network and the headless browser will answer
InitResolver ==
    /\ PipelineIdle
    /\ limiter = NoLimiter
    /\ hrun = NoHrun
    /\ http = NoHttp
    /\ llm_call = NoLlmCall
    /\ gfetch = NoGfetch
    /\ upserts = NoUpserts
    /\ factors = NoFactors
    /\ rollup = NoRollup
    /\ qbuild = NoQbuild
    /\ urlcheck = NoUrlcheck
    /\ retry = NoRetry
    /\ equiv = NoEquiv
    /\ \E url \in LinkChoices, headless_resolve \in BOOLEAN, playwright \in BOOLEAN,
          resolve_to_publisher \in BOOLEAN, metrics \in BOOLEAN,
          final \in FinalChoices, hres \in HeadlessChoices :
          resolver = [pc |-> "ready", url |-> url, headless_resolve |-> headless_resolve,
                      playwright |-> playwright, resolve_to_publisher |-> resolve_to_publisher,
                      metrics |-> metrics, final |-> final, hres |-> hres,
                      res |-> <<>>, outcomes |-> <<>>]

\* GoogleNewsResolver.resolve: an empty URL returns before the try block, the
\* finally block records the outcome when a metrics port is configured
Resolve ==
    /\ resolver.pc = "ready"
    /\ IF resolver.url.host = ""
       THEN resolver' = [resolver EXCEPT !.pc = "done"]
       ELSE LET out == ResolveTry(resolver)
            IN  resolver' = [resolver EXCEPT !.pc = "done", !.res = out.res,
                                             !.outcomes = IF resolver.metrics
                                                          THEN <<out.outcome>> ELSE <<>>]
    /\ UNCHANGED pipeline
    /\ UNCHANGED exceptResolver

NextResolver == Resolve

SpecResolver == InitResolver /\ [][NextResolver]_vars

\* ---------------------------------------------------------------- is_valid_news_url
MaxText == 3

\* the pieces a URL text is made of
UrlPieces == {"https://", "http://", "ftp://", " ", "seg", ".jpg", ".PDF", ".html", "?", "#"}

UrlTexts == UNION {[1..n -> UrlPieces] : n \in 0..MaxText}

InitUrl ==
    /\ PipelineIdle
    /\ limiter = NoLimiter
    /\ hrun = NoHrun
    /\ http = NoHttp
    /\ llm_call = NoLlmCall
    /\ gfetch = NoGfetch
    /\ upserts = NoUpserts
    /\ factors = NoFactors
    /\ rollup = NoRollup
    /\ qbuild = NoQbuild
    /\ resolver = NoResolver
    /\ retry = NoRetry
    /\ equiv = NoEquiv
    /\ \E url \in UrlTexts, query \in UrlPieces :
          urlcheck = [pc |-> "ready", url |-> url, query |-> <<query>>,
                      valid |-> FALSE, valid_q |-> FALSE]

\* is_valid_news_url on the URL and on the URL with "?" and a query appended
CheckUrl ==
    /\ urlcheck.pc = "ready"
    /\ urlcheck' = [urlcheck EXCEPT
                      !.pc = "done",
                      !.valid = is_valid_news_text(urlcheck.url),
                      !.valid_q = is_valid_news_text(urlcheck.url \o <<"?">> \o urlcheck.query)]
    /\ UNCHANGED pipeline
    /\ UNCHANGED exceptUrlcheck

NextUrl == CheckUrl

SpecUrl == InitUrl /\ [][NextUrl]_vars

\* ---------------------------------------------------------------- repeated process_batch
MaxInbox == 3

\* the inbox after n harvests of one asset and nothing adjudicated yet; the
\* command is then invoked again and again with one limit
InitRetry ==
    /\ \E n \in 1..MaxInbox :
          /\ url_harvests = {[id |-> i, url |-> i, asset_symbol |-> "BTC", discovered_at |-> i] :
                                i \in 1..n}
          /\ uhSeq = n
          /\ harvestCalls = n
          /\ \E limit \in 1..MaxLimit, failing \in SUBSET (1..n) :
                retry = [limit |-> limit, failing |-> failing]
    /\ summarized_articles = {}
    /\ rejections = {}
    /\ llm_votes = {}
    /\ news_domain_stats = {}
    /\ clients \in 0..MaxClients
    /\ pc = "idle"
    /\ run = NoRun
    /\ batch = <<>>
    /\ cur = 0
    /\ task = <<>>
    /\ article_id = None
    /\ vi = 0
    /\ cnt = ZeroCnt
    /\ batches = 0
    /\ trace = <<>>
    /\ ensembleCall = NoCall
    /\ limiter = NoLimiter
    /\ hrun = NoHrun
    /\ http = NoHttp
    /\ llm_call = NoLlmCall
    /\ gfetch = NoGfetch
    /\ upserts = NoUpserts
    /\ factors = NoFactors
    /\ rollup = NoRollup
    /\ qbuild = NoQbuild
    /\ resolver = NoResolver
    /\ urlcheck = NoUrlcheck
    /\ equiv = NoEquiv

\* the next invocation of process_batch, with the same limit
RepeatBatch ==
    /\ FetchBatch("BTC", retry.limit, None, "seq", FALSE)
    /\ UNCHANGED batches

\* the LLM call of a candidate: it raises for the candidates that fail on
\* every attempt and returns for the others
RetryLlmCall ==
    /\ pc = "llm"
    /\ IF Candidate.id \in retry.failing
       THEN SeqLlmRaise
       ELSE \E outs \in [1..clients -> ClientOutcomes] : SeqLlmCall(outs)

NextRetry ==
    \/ RepeatBatch
    \/ RetryLlmCall
    \/ SaveSummary(TRUE, TRUE)
    \/ SaveRejection(TRUE, TRUE)
    \/ SaveVote(TRUE)
    \/ DeleteUrlHarvest(TRUE)

\* the command is invoked again whenever it has returned, and every call it
\* makes comes back
FairRetry == InitRetry /\ [][NextRetry]_vars /\ WF_vars(NextRetry)

\* ---------------------------------------------------------------- process_batch against process_batch_parallel
\* what a candidate's calls do, fixed for both runs: the LLM call raises or
\* the clients answer outs, and each persistence call works or raises
OutcomeChoices ==
    [llm_raise : BOOLEAN, outs : [1..MaxClients -> ClientOutcomes],
     save_ok : BOOLEAN, vote_ok : BOOLEAN, delete_ok : BOOLEAN]

\* the four tables as they are, generated ids included
StoreRows == <<summarized_articles, rejections, llm_votes, url_harvests>>

\* the four tables without the ids the database generates; a vote names its
\* article by the article's URL
StoreContent ==
    <<{[url |-> r.url, asset_symbol |-> r.asset_symbol] : r \in summarized_articles},
      {[url |-> r.url, asset_symbol |-> r.asset_symbol, reason |-> r.reason,
        context |-> r.context, model |-> r.model] : r \in rejections},
      {[url |-> v.url, asset_symbol |-> v.asset_symbol, model |-> v.model,
        relevance |-> v.relevance, harvest_id |-> v.harvest_id,
        article |-> IF v.article_id = None THEN None
                    ELSE (CHOOSE a \in summarized_articles : a.id = v.article_id).url] :
          v \in llm_votes},
      url_harvests>>

\* an inbox of n rows of one asset, nothing adjudicated yet, and the outcomes
\* of every candidate's calls
InitEquiv ==
    /\ \E n \in 1..MaxLimit :
          /\ url_harvests = {[id |-> i, url |-> i, asset_symbol |-> "BTC", discovered_at |-> i] :
                                i \in 1..n}
          /\ uhSeq = n
          /\ harvestCalls = n
          /\ \E outcome \in [1..n -> OutcomeChoices] :
                equiv = [phase |-> "seq", inbox |-> url_harvests, outcome |-> outcome,
                         seq |-> NoResult]
    /\ summarized_articles = {}
    /\ rejections = {}
    /\ llm_votes = {}
    /\ news_domain_stats = {}
    /\ clients = MaxClients
    /\ pc = "idle"
    /\ run = NoRun
    /\ batch = <<>>
    /\ cur = 0
    /\ task = <<>>
    /\ article_id = None
    /\ vi = 0
    /\ cnt = ZeroCnt
    /\ batches = 0
    /\ trace = <<>>
    /\ ensembleCall = NoCall
    /\ limiter = NoLimiter
    /\ hrun = NoHrun
    /\ http = NoHttp
    /\ llm_call = NoLlmCall
    /\ gfetch = NoGfetch
    /\ upserts = NoUpserts
    /\ factors = NoFactors
    /\ rollup = NoRollup
    /\ qbuild = NoQbuild
    /\ resolver = NoResolver
    /\ urlcheck = NoUrlcheck
    /\ retry = NoRetry

\* process_batch, then process_batch_parallel, on the whole inbox
EquivBatch ==
    /\ run.mode = "none"
    /\ FetchBatch("BTC", MaxLimit, None, IF equiv.phase = "seq" THEN "seq" ELSE "par", FALSE)
    /\ UNCHANGED batches

\* process_batch has returned: its result is kept and the store is put back
\* to the inbox it started from
EquivRestore ==
    /\ equiv.phase = "seq"
    /\ pc = "idle"
    /\ run.mode = "seq"
    /\ equiv' = [equiv EXCEPT !.phase = "par",
                               !.seq = [rows |-> StoreRows, content |-> StoreContent, cnt |-> cnt]]
    /\ url_harvests' = equiv.inbox
    /\ summarized_articles' = {}
    /\ rejections' = {}
    /\ llm_votes' = {}
    /\ news_domain_stats' = {}
    /\ run' = NoRun
    /\ batch' = <<>>
    /\ task' = <<>>
    /\ trace' = <<>>
    /\ cnt' = ZeroCnt
    /\ UNCHANGED <<uhSeq, harvestCalls, pc, cur, article_id, vi, batches, clients, ensembleCall>>
    /\ UNCHANGED exceptEquiv

\* the LLM call of a candidate with its fixed outcome: in the loop of
\* process_batch, or in a worker of process_batch_parallel
EquivLlmCall ==
    \/ /\ pc = "llm"
       /\ IF equiv.outcome[Candidate.id].llm_raise
          THEN SeqLlmRaise
          ELSE SeqLlmCall(equiv.outcome[Candidate.id].outs)
    \/ \E i \in 1..MaxLimit :
          /\ i <= Len(batch)
          /\ IF equiv.outcome[batch[i].id].llm_raise
             THEN ParLlmTaskRaise(i)
             ELSE ParLlmTask(i, equiv.outcome[batch[i].id].outs)

\* the persistence calls of the candidate at hand with their fixed outcomes
EquivPersist ==
    /\ pc \in {"save", "votes", "delete"}
    /\ \/ SaveSummary(equiv.outcome[Candidate.id].save_ok, TRUE)
       \/ SaveRejection(equiv.outcome[Candidate.id].save_ok, TRUE)
       \/ SaveVote(equiv.outcome[Candidate.id].vote_ok)
       \/ DeleteUrlHarvest(equiv.outcome[Candidate.id].delete_ok)

NextEquiv ==
    \/ EquivBatch
    \/ EquivRestore
    \/ EquivLlmCall
    \/ \E i \in 1..MaxLimit : ParTake(i)
    \/ EquivPersist

SpecEquiv == InitEquiv /\ [][NextEquiv]_vars

\* ---------------------------------------------------------------- claims
Idx == 1..Len(batch)
Returned == pc = "idle" /\ batches > 0
NonDry == ~run.dry_run
VotesOf(hid) == {v \in llm_votes : v.harvest_id = hid}
CallsOf(i, op) == {k \in 1..Len(trace[i].calls) : trace[i].calls[k].op = op}
Known(u, a) == InInbox(u, a) # {} \/ InSummarized(u, a) # {} \/ InRejections(u, a) # {}

C2_AsClaimed ==
    NonDry =>
        \A i \in Idx :
            trace[i].status = "error" =>
                /\ trace[i].calls = <<>>
                /\ InSummarized(batch[i].url, run.asset) = {}
                /\ InRejections(batch[i].url, run.asset) = {}
                /\ VotesOf(batch[i].id) = {}
                /\ batch[i] \in url_harvests

\* C3: a candidate adjudicated without error got exactly one save_summary and
\* no save_rejection when the ensemble relevance is true, and otherwise
\* exactly one save_rejection (no_asset_relation / summarize / ensemble) and
\* no save_summary; the row written is in the store.
C3_SummaryIffRelevant ==
    NonDry =>
        \A i \in Idx :
            trace[i].status = "ok" =>
                LET sums == CallsOf(i, "save_summary")
                    rejs == CallsOf(i, "save_rejection")
                IN  IF task[i].ai.relevance = "True"
                    THEN /\ Cardinality(sums) = 1
                         /\ rejs = {}
                         /\ \A k \in sums :
                                [id |-> trace[i].calls[k].id, url |-> batch[i].url,
                                 asset_symbol |-> run.asset] \in summarized_articles
                    ELSE /\ Cardinality(rejs) = 1
                         /\ sums = {}
                         /\ \A k \in rejs :
                                [id |-> trace[i].calls[k].id, url |-> batch[i].url,
                                 asset_symbol |-> run.asset, reason |-> "no_asset_relation",
                                 context |-> "summarize", model |-> "ensemble"] \in rejections

C3_Witness ==
    /\ Returned
    /\ NonDry
    /\ \E i, j \in Idx :
        /\ trace[i].status = "ok" /\ task[i].ai.relevance = "True"
        /\ trace[j].status = "ok" /\ task[j].ai.relevance = "False"

\* C4 as claimed: a save_url_harvest(u, a) call inserts a row and returns
\* (new id > 0, False) iff (u, a) is in none of the three tables, returns
\* (inbox id, True) when (u, a) is in the inbox and (0, True) when it is in
\* summarized_articles or rejections, inserting nothing for a duplicate; an
\* inbox row is only ever created for a pair that was never known before.
C4_Returns(u, a) ==
    LET res == save_url_harvest(u, a)
        row == [id |-> res.id, url |-> u, asset_symbol |-> a, discovered_at |-> harvestCalls + 1]
    IN  /\ (~Known(u, a)) <=>
               (/\ ~res.is_duplicate
                /\ res.id > 0
                /\ row \notin url_harvests
                /\ url_harvests' = url_harvests \cup {row})
        /\ InInbox(u, a) # {} =>
               (/\ res.is_duplicate
                /\ res.id \in {r.id : r \in InInbox(u, a)}
                /\ url_harvests' = url_harvests)
        /\ (InSummarized(u, a) # {} \/ InRejections(u, a) # {}) =>
               (/\ res.is_duplicate
                /\ res.id = 0
                /\ url_harvests' = url_harvests)

C4_AsClaimed ==
    [][/\ \A u \in Urls, a \in Assets : HarvestSave(u, a) => C4_Returns(u, a)
       /\ \A u \in Urls, a \in Assets :
            /\ Known(u, a) => Known(u, a)'
            /\ (InInbox(u, a) = {} /\ InInbox(u, a)' # {}) => ~Known(u, a)]_vars

\* C5 as claimed: in every state every (url, asset) pair is in at most one of
\* url_harvests, summarized_articles and rejections.
C5_AsClaimed ==
    \A u \in Urls, a \in Assets :
        /\ ~(InInbox(u, a) # {} /\ InSummarized(u, a) # {})
        /\ ~(InInbox(u, a) # {} /\ InRejections(u, a) # {})
        /\ ~(InSummarized(u, a) # {} /\ InRejections(u, a) # {})

\* C6 as claimed: for a candidate adjudicated without error the llm_votes rows
\* carrying its harvest_id are exactly one per client that returned a vote.
C6_AsClaimed ==
    NonDry =>
        \A i \in Idx :
            trace[i].status = "ok" =>
                /\ Cardinality(VotesOf(batch[i].id)) = Len(task[i].ai.votes)
                /\ \A k \in 1..Len(task[i].ai.votes) :
                       Cardinality({v \in VotesOf(batch[i].id) : v.model = task[i].ai.votes[k].model}) = 1

\* C7 as claimed: every llm_votes row has exactly one of article_id and url
\* set; a row written for a candidate carries the candidate's harvest id and
\* the article id save_summary returned (relevant) or the candidate's url (not
\* relevant); and once the batch has returned every summarized_articles row is
\* referenced by a vote row.
C7_AsClaimed ==
    /\ \A v \in llm_votes : (v.article_id = None) # (v.url = None)
    /\ \A i \in Idx :
           \A k \in CallsOf(i, "save_vote") :
               \E v \in llm_votes :
                   /\ v.id = trace[i].calls[k].id
                   /\ v.harvest_id = batch[i].id
                   /\ IF task[i].ai.relevance = "True"
                      THEN /\ v.url = None
                           /\ \E s \in CallsOf(i, "save_summary") : v.article_id = trace[i].calls[s].id
                      ELSE /\ v.url = batch[i].url
                           /\ v.article_id = None
    /\ Returned =>
           \A s \in summarized_articles :
               \E v \in llm_votes : v.article_id = s.id /\ v.harvest_id # None

\* C8: errors counts exactly the candidates that ended in the except branch,
\* and when the batch has returned every fetched candidate was taken up and
\* ended either adjudicated or as an error: processed = size of the batch.
C8_FailureIsolated ==
    /\ cnt.errors = Cardinality({i \in Idx : trace[i].status = "error"})
    /\ Returned =>
           /\ cnt.processed = Len(batch)
           /\ \A i \in Idx :
                  /\ task[i].st = "taken"
                  /\ trace[i].status \in {"ok", "error"}

\* C8, the return: a batch that was started always returns
C8_Returns == (pc # "idle") ~> (pc = "idle")

C8_FailureIsolatedAndReturns == []C8_FailureIsolated /\ C8_Returns

C8_Witness ==
    /\ Returned
    /\ Len(batch) = 2
    /\ trace[1].status = "error"
    /\ trace[2].status = "ok"

\* C9: the aggregated relevance of a vote list is true iff the list is not
\* empty and the votes with relevance true are at least as many as those with
\* relevance false.
C9_MajorityTieTrue ==
    LET votes == ensembleCall.ai.votes
        yes == {k \in 1..Len(votes) : votes[k].relevance = "True"}
        no == {k \in 1..Len(votes) : votes[k].relevance = "False"}
    IN  ensembleCall # NoCall =>
            /\ ensembleCall.ai.relevance \in {"True", "False"}
            /\ (ensembleCall.ai.relevance = "True") <=>
                   (votes # <<>> /\ Cardinality(yes) >= Cardinality(no))

C9_Witness ==
    /\ Len(ensembleCall.ai.votes) = 2
    /\ ensembleCall.ai.votes[1].relevance = "True"
    /\ ensembleCall.ai.votes[2].relevance = "False"
    /\ ensembleCall.ai.relevance = "True"

\* C10: one ensemble call calls the clients 1..n once each in that order, does
\* not raise, and returns one normalized vote per client that returned, in
\* client order, and none for a client that raised.
C10_EveryClientOnce ==
    LET c == ensembleCall
        returned == {i \in 1..Len(c.outs) : c.outs[i] # "raise"}
    IN  c # NoCall =>
            /\ c.ai.ok
            /\ c.ai.calls = [i \in 1..clients |-> i]
            /\ Len(c.ai.votes) = Cardinality(returned)
            /\ \A k \in 1..Len(c.ai.votes) :
                   /\ c.ai.votes[k].model \in {ClientModel(i) : i \in returned}
                   /\ c.ai.votes[k].relevance =
                          (IF c.outs[c.ai.votes[k].model] = "True" THEN "True" ELSE "False")
            /\ \A k, l \in 1..Len(c.ai.votes) :
                   k < l => c.ai.votes[k].model < c.ai.votes[l].model

C10_Witness ==
    /\ clients >= 3
    /\ ensembleCall # NoCall
    /\ ensembleCall.outs[1] = "raise"
    /\ ensembleCall.outs[2] # "raise"
    /\ ensembleCall.outs[3] = "raise"
    /\ Len(ensembleCall.ai.votes) = clients - 2

\* C11: in process_batch_parallel the persistence steps of different candidates
\* never interleave: only the candidate being reduced has unfinished
\* persistence calls, every write goes to that candidate, and a finished
\* candidate gets no further call; every candidate is reduced exactly once (a
\* future is taken when done and never again, processed counts the taken
\* ones); and a worker thread's step changes neither the counters nor the store.
Par == run.mode = "par"
Persisting == pc \in {"save", "votes", "delete"}
WritesStore ==
    \/ summarized_articles' # summarized_articles
    \/ rejections' # rejections
    \/ llm_votes' # llm_votes
    \/ \E r \in url_harvests : r \notin url_harvests'
WorkerStep == \E i \in Idx : task[i].st = "pending" /\ task'[i].st = "done" /\ batches' = batches

C11_OneAtATime ==
    Par =>
        /\ \A i \in Idx :
               (trace[i].calls # <<>> /\ trace[i].status = "none") => (i = cur /\ Persisting)
        /\ Persisting => (cur \in Idx /\ task[cur].st = "taken" /\ trace[cur].status = "none")
        /\ cnt.processed = Cardinality({i \in Idx : task[i].st = "taken"})

C11_Steps ==
    (Par /\ batches' = batches) =>
        /\ WritesStore =>
               /\ Persisting
               /\ summarized_articles' \ summarized_articles \subseteq
                      {r \in summarized_articles' : r.url = batch[cur].url /\ r.asset_symbol = run.asset}
               /\ rejections' \ rejections \subseteq
                      {r \in rejections' : r.url = batch[cur].url /\ r.asset_symbol = run.asset}
               /\ llm_votes' \ llm_votes \subseteq {r \in llm_votes' : r.harvest_id = batch[cur].id}
               /\ url_harvests \ url_harvests' \subseteq {batch[cur]}
               /\ \A i \in Idx : i # cur => trace'[i] = trace[i]
        /\ (Persisting /\ pc' \in {"votes", "delete"}) => cur' = cur
        /\ \A i \in Idx :
               /\ trace[i].status # "none" => trace'[i] = trace[i]
               /\ task[i].st = "taken" => task'[i] = task[i]
               /\ (task[i].st # "taken" /\ task'[i].st = "taken") =>
                      (pc = "wait" /\ task[i].st = "done" /\ cnt'.processed = cnt.processed + 1)
        /\ WorkerStep => (cnt' = cnt /\ ~WritesStore /\ pc' = pc /\ cur' = cur)

C11_NoInterleaving == []C11_OneAtATime /\ [][C11_Steps]_vars

\* both candidates of a parallel batch adjudicated, the second one first
C11_Witness ==
    /\ Returned
    /\ Par
    /\ NonDry
    /\ Len(batch) = 2
    /\ trace[1].status = "ok"
    /\ trace[2].status = "ok"
    /\ trace[1].calls[1].op = "save_rejection"
    /\ trace[2].calls[1].op = "save_rejection"
    /\ trace[2].calls[1].id < trace[1].calls[1].id

\* C12 as claimed: the time between the first and the N-th return of wait()
\* lies between (N-1)*0.95*interval and (N-1)*1.05*interval.
C12_AsClaimed ==
    limiter.returns >= 2 =>
        /\ 20 * (limiter.last - limiter.first) >= 19 * (limiter.returns - 1) * limiter.interval
        /\ 20 * (limiter.last - limiter.first) <= 21 * (limiter.returns - 1) * limiter.interval

\* C12 amended: the time between the first and the N-th return of wait(), less
\* the time by which the callers came to the limiter (or woke up) after its
\* next allowed instant, lies between (N-1)*0.95*interval and
\* (N-1)*1.05*interval; the elapsed time itself is never below the lower bound.
C12_Amended ==
    limiter.returns >= 2 =>
        /\ limiter.late >= 0
        /\ 20 * (limiter.last - limiter.first) >= 19 * (limiter.returns - 1) * limiter.interval
        /\ 20 * (limiter.last - limiter.first - limiter.late) >= 19 * (limiter.returns - 1) * limiter.interval
        /\ 20 * (limiter.last - limiter.first - limiter.late) <= 21 * (limiter.returns - 1) * limiter.interval

\* three returns, some caller late, and the elapsed time above the claimed maximum
C12_Witness ==
    /\ limiter.returns = 3
    /\ limiter.late > 0
    /\ 20 * (limiter.last - limiter.first) > 21 * 2 * limiter.interval

\* C17 as claimed: a step of a dry-run batch (process_batch or
\* process_batch_parallel with dry_run=True) changes no persistent state: no
\* row is inserted into summarized_articles, rejections or llm_votes, no
\* url_harvests row is deleted, and no news_domain_stats counter is changed.
C17_AsClaimed ==
    [][(run.dry_run /\ pc # "idle" /\ harvestCalls' = harvestCalls) =>
           /\ summarized_articles' = summarized_articles
           /\ rejections' = rejections
           /\ llm_votes' = llm_votes
           /\ url_harvests' = url_harvests
           /\ news_domain_stats' = news_domain_stats]_vars

\* a step of HarvestUrls.run that handles one raw document
DocStep == hrun.pc = "docs" /\ hrun'.last.kind = "doc" /\ hrun' # hrun

\* the two checks of a document: URL validation and the enforced domain policy
PassesChecks(h, ev) ==
    /\ is_valid_news_url(ev.url)
    /\ ~(h.enforce_domain_filter /\ ev.allowed = "False")

\* C13: a document reaches save_url_harvest iff its URL is valid and it is not
\* blocked by an enforced policy; a document failing a check adds exactly one
\* to rejected_invalid and leaves the other counters alone (as claimed)
C13_AsClaimed ==
    [][DocStep =>
         /\ (hrun'.last.save # "not_called") <=> PassesChecks(hrun, hrun'.last)
         /\ ~PassesChecks(hrun, hrun'.last) =>
               /\ hrun'.summary.rejected_invalid = hrun.summary.rejected_invalid + 1
               /\ hrun'.summary.after_assemble = hrun.summary.after_assemble
               /\ hrun'.summary.after_dedupe = hrun.summary.after_dedupe
               /\ hrun'.summary.saved = hrun.summary.saved
               /\ hrun'.summary.skipped_duplicates = hrun.summary.skipped_duplicates]_vars

\* C14: at the return of HarvestUrls.run after_dedupe equals after_assemble
\* (as claimed)
C14_AsClaimed ==
    hrun.pc = "done" => hrun.summary.after_dedupe = hrun.summary.after_assemble

\* C15: with a domain policy, every processed document has exactly one
\* record_harvest call, with stored=True iff save_url_harvest inserted a row
\* (as claimed)
C15_AsClaimed ==
    (hrun.domain_policy /\ hrun.last.kind = "doc") =>
        /\ Len(hrun.last.records) = 1
        /\ hrun.last.records[1].stored = (hrun.last.save = "stored")

RECURSIVE SumDocs(_)
SumDocs(ord) == IF ord = <<>> THEN 0 ELSE Len(Head(ord).docs) * (IF Head(ord).kind = "fetch" THEN 1 ELSE 0)
                                          + SumDocs(Tail(ord))

\* what may follow an entry of the run's order
Follows(e, f) ==
    IF e.kind = "fetch" /\ e.docs # <<>>
    THEN f.kind = "doc" /\ f.source = e.source /\ f.idx = 1 /\ f.docs = e.docs /\ f.url = e.docs[1]
    ELSE IF e.kind = "doc" /\ e.idx < Len(e.docs)
    THEN f.kind = "doc" /\ f.source = e.source /\ f.idx = e.idx + 1 /\ f.docs = e.docs
         /\ f.url = e.docs[f.idx]
    ELSE f.kind \in {"fetch", "failed"} /\ f.source = e.source + 1

\* the entry ends its source
EndsSource(e) ==
    \/ e.kind = "failed"
    \/ e.kind = "fetch" /\ e.docs = <<>>
    \/ e.kind = "doc" /\ e.idx = Len(e.docs)

\* C16: the sources are handled one after another in list order; a source
\* contributes all its documents in the returned order before the next fetch,
\* or, when its fetch raises, nothing to total_docs, and later sources are
\* still fetched and processed
C16_SourceSequential ==
    LET ord == hrun.order IN
    /\ ord # <<>> => ord[1].kind \in {"fetch", "failed"} /\ ord[1].source = 1
    /\ \A k \in 1..(Len(ord) - 1) : Follows(ord[k], ord[k + 1])
    /\ hrun.summary.total_docs = SumDocs(ord)
    /\ hrun.pc = "done" =>
          /\ \A src \in 1..hrun.sources :
                \E k \in 1..Len(ord) : ord[k].kind \in {"fetch", "failed"} /\ ord[k].source = src
          /\ ord # <<>> => EndsSource(ord[Len(ord)])

C16_Witness ==
    /\ hrun.pc = "done"
    /\ Len(hrun.order) = 4
    /\ hrun.order[1].kind = "failed"
    /\ hrun.order[4].kind = "doc" /\ hrun.order[4].source = 2 /\ hrun.order[4].idx = 2
    /\ hrun.summary.total_docs = 2

\* the call whose requests http.calls holds has ended
CallEnded == http.attempt = 0 /\ http.slices # <<>>
EndedOutcome == http.slices[Len(http.slices)].outcome

\* the length of the run of 429/5xx responses that ends at request k
RECURSIVE RetryableRun(_, _)
RetryableRun(c, k) == IF k = 0 \/ c[k].resp # "retryable" THEN 0 ELSE 1 + RetryableRun(c, k - 1)

RECURSIVE Pow2(_)
Pow2(n) == IF n <= 0 THEN 1 ELSE 2 * Pow2(n - 1)

\* the attempt failed in a way _request_json answers with a sleep
GdeltFailed(e) ==
    \/ e.resp \in {"retryable", "client_error", "transport"}
    \/ e.resp = "bad_json" /\ http.json_error_retried

\* what C18 says of the requests, the soft failures and the buckets
C18_Buckets ==
    /\ Len(http.calls) <= http.max_retries
    /\ \A b \in 1..Len(http.slices) :
          /\ http.slices[b].requests \in 1..http.max_retries
          /\ http.slices[b].outcome = "None" => b \notin http.results
    /\ CallEnded =>
          LET end == http.calls[Len(http.calls)] IN
          /\ (Len(http.calls) = http.max_retries /\ end.resp # "ok") => EndedOutcome = "None"
          /\ end.resp = "non_json" => EndedOutcome = "None"
    /\ http.pc = "done" => Len(http.slices) = http.buckets

\* C18: at most max_retries requests per day bucket, a wait of 2^(k-1) s
\* after the k-th consecutive 429/5xx response, no data when exhausted or not
\* JSON, the bucket skipped and the remaining buckets requested (as claimed)
C18_AsClaimed ==
    http.client = "gdelt" =>
        /\ C18_Buckets
        /\ \A k \in 1..Len(http.calls) :
              http.calls[k].resp = "retryable" =>
                  http.calls[k].slept = Pow2(RetryableRun(http.calls, k) - 1)

\* C18 (amended): the wait doubles with every failed attempt of the call,
\* request errors and non-429 4xx included: after the k-th attempt, if it
\* failed, the wait is 2^(k-1) s
C18_Amended ==
    http.client = "gdelt" =>
        /\ C18_Buckets
        /\ \A k \in 1..Len(http.calls) :
              http.calls[k].slept = IF GdeltFailed(http.calls[k]) THEN Pow2(k - 1) ELSE 0

C18_Witness ==
    /\ http.client = "gdelt" /\ http.pc = "done" /\ http.buckets = 2
    /\ http.slices[1].outcome = "None" /\ http.slices[1].requests = 3
    /\ Len(http.calls) = 3
    /\ http.calls[1].resp = "transport" /\ http.calls[1].slept = 1
    /\ http.calls[2].resp = "retryable" /\ http.calls[2].slept = 2
    /\ http.calls[3].resp = "ok"
    /\ http.slices[2].outcome = "data" /\ http.results = {2}

\* HTTP 4xx other than 429
ClientErrors == {"client_error", "hint_pro", "hint_public"}

\* C19: in every HTTP client a 4xx response other than 429 ends the call
\* after that request, which is not retried, and the failure is surfaced
\* (as claimed)
C19_AsClaimed ==
    \A k \in 1..Len(http.calls) :
        http.calls[k].resp \in ClientErrors =>
            CallEnded /\ k = Len(http.calls) /\ EndedOutcome = "raise"

\* a MAX_TOKENS finish or a JSON parse error
ScalingFailures == {"json_error", "truncated", "truncated_ok"}

\* C20: with auto-scaling on, a MAX_TOKENS finish or a JSON parse error below
\* the cap is followed by a request asking min(cap, previous + 400); no request
\* asks for more than the cap; such a failure at the cap raises; the number of
\* requests is bounded (as claimed)
C20_AsClaimed ==
    (llm_call.auto_scale_max_tokens /\ llm_call.n >= 1) =>
        /\ llm_call.last.max_tokens <= llm_call.cap
        /\ (llm_call.n >= 2 /\ llm_call.prev.result \in ScalingFailures) =>
              llm_call.last.max_tokens = Min(llm_call.cap, llm_call.prev.max_tokens + 400)
        /\ (llm_call.last.result \in ScalingFailures /\ llm_call.last.max_tokens < llm_call.cap) =>
              llm_call.pc = "call"
        /\ (llm_call.last.result \in ScalingFailures /\ llm_call.last.max_tokens >= llm_call.cap) =>
              llm_call.pc = "done" /\ llm_call.outcome = "raise"
        /\ llm_call.n <= 2 * (2 + llm_call.cap \div 400)

\* the UTC day an instant lies in
FloorDay(t) == (t \div TicksPerDay) * TicksPerDay

\* the slices C21 names for a window: one per UTC day d with
\* floor_day(start) <= d < floor_day(end), ascending
ClaimedSlices(start, end) ==
    LET n == IF FloorDay(start) >= FloorDay(end) THEN 0
             ELSE (FloorDay(end) - FloorDay(start)) \div TicksPerDay
    IN  [i \in 1..n |->
            LET d == FloorDay(start) + (i - 1) * TicksPerDay
            IN  [q_start |-> Max(start, d), q_end |-> Min(end, d + TicksPerDay),
                 batch_day_start |-> d]]

FutureRange == gfetch.start > gfetch.now \/ gfetch.end > gfetch.now

\* C21: fetch_documents issues exactly one query per claimed slice of the
\* window, in ascending day order (as claimed)
C21_AsClaimed ==
    gfetch.pc = "done" => gfetch.queries = ClaimedSlices(gfetch.start, gfetch.end)

\* C21 (amended): the slices are the claimed ones, and each is queried exactly
\* once, unless start or end lies after the current time: then fetch_documents
\* issues no query at all
C21_Amended ==
    /\ (gfetch.pc \in {"query", "done"} /\ ~FutureRange) =>
          gfetch.slices = ClaimedSlices(gfetch.start, gfetch.end)
    /\ gfetch.pc = "done" =>
          gfetch.queries = IF FutureRange THEN <<>>
                           ELSE ClaimedSlices(gfetch.start, gfetch.end)

\* the window 01-01T12:00Z .. 01-03T06:00Z gives the buckets 01-01 and 01-02
C21_Witness ==
    /\ gfetch.pc = "done" /\ gfetch.start = 2 /\ gfetch.end = 9 /\ ~FutureRange
    /\ Len(gfetch.queries) = 2
    /\ gfetch.queries[1] = [q_start |-> 2, q_end |-> 4, batch_day_start |-> 0]
    /\ gfetch.queries[2] = [q_start |-> 4, q_end |-> 8, batch_day_start |-> 4]

\* C22: every returned document has a published_at that is a UTC day-start
\* inside the requested window (as claimed)
C22_AsClaimed ==
    \A i \in 1..Len(gfetch.results) :
        LET t == gfetch.results[i].published_at IN
        /\ t % TicksPerDay = 0
        /\ gfetch.start <= t /\ t < gfetch.end

\* the threads whose call is one of ops
CallersOf(ops) == {t \in 1..Len(upserts.thread) : upserts.thread[t].op \in ops}

\* C23: once all the concurrent calls have ended, the row of the (asset,
\* domain) has harvested_total = n, stored_total = k and llm_accepted +
\* llm_rejected = m, and there is one row only (as claimed)
C23_AsClaimed ==
    (upserts.thread # <<>> /\ \A t \in 1..Len(upserts.thread) : upserts.thread[t].st # "running") =>
        /\ Cardinality(news_domain_stats) = 1
        /\ \A r \in news_domain_stats :
              /\ r.harvested_total = Cardinality(CallersOf({"record_harvest_stored", "record_harvest"}))
              /\ r.stored_total = Cardinality(CallersOf({"record_harvest_stored"}))
              /\ r.llm_accepted + r.llm_rejected = Cardinality(CallersOf({"llm_accepted", "llm_rejected"}))

\* b is the FIFO batch of an inbox: the min(limit, n) eligible rows with the
\* smallest discovered_at, ascending, which is the order of their ids
FifoBatch(b, inbox, a, limit, since) ==
    LET eligible == {r \in inbox : r.asset_symbol = a /\ (since # None => r.discovered_at >= since)}
        got == {b[i] : i \in 1..Len(b)}
    IN  /\ Len(b) = Min(limit, Cardinality(eligible))
        /\ Cardinality(got) = Len(b)
        /\ got \subseteq eligible
        /\ \A i, j \in 1..Len(b) :
              i < j => b[i].discovered_at < b[j].discovered_at /\ b[i].id < b[j].id
        /\ \A r \in eligible \ got : \A i \in 1..Len(b) : b[i].discovered_at <= r.discovered_at

\* C24: fetch_url_harvest_batch returns the oldest min(limit, n) inbox rows
\* of the asset (not older than since), oldest first, and leaves the inbox
\* as it is
C24_FifoBatch ==
    [][\A a \in Assets, limit \in 1..MaxLimit, since \in 0..MaxHarvestCalls,
          mode \in {"seq", "par"}, dry \in BOOLEAN :
          StartBatch(a, limit, since, mode, dry) =>
              /\ FifoBatch(batch', url_harvests, a, limit, since)
              /\ url_harvests' = url_harvests]_vars

\* a batch cut by the limit: one row fetched, a newer one of the asset left
C24_Witness ==
    /\ pc # "idle" /\ Len(batch) = 1
    /\ \E r \in url_harvests :
          /\ r.asset_symbol = run.asset /\ r.discovered_at > batch[1].discovered_at
          /\ batch[1] \in url_harvests

\* a finished run's days with a null return and a non-null sentiment that
\* could be normalised
NullReturnDays ==
    {i \in 1..Len(factors.rows) :
        /\ factors.returns[i].ret = <<>>
        /\ factors.rows[i].sentiment_mean # <<>>
        /\ factors.rows[i].sentiment_norm # <<>>}

\* C25: on a day with a null return and a non-null sentiment the factor row
\* has ret_1d null, exp_return_30d equal to the previous day's EMA value and
\* p_alpha equal to the day's sentiment_norm
C25_AsClaimed ==
    factors.pc = "done" =>
        \A i \in NullReturnDays :
            /\ factors.rows[i].ret_1d = <<>>
            /\ i > 1 => factors.rows[i].exp_return_30d = factors.rows[i - 1].exp_return_30d
            /\ factors.rows[i].p_alpha = factors.rows[i].sentiment_norm

\* a list of candles or factor rows in strictly ascending day order
AscendingDays(rows) == \A i, j \in 1..Len(rows) : i < j => rows[i].day < rows[j].day

\* C26: every list of daily candles or factor rows handed to persistence is
\* in strictly ascending day order, one element per day, whatever the order
\* of the input
C26_AsClaimed ==
    /\ rollup.pc \in {"rolled", "ingested"} => AscendingDays(rollup.candles)
    /\ factors.pc = "done" => AscendingDays(factors.rows)

\* the query sent upstream holds the crypto-context block
HasContext == \E i \in 1..Len(qbuild.query) : qbuild.query[i].kind = "context"

\* the asset is a major asset without context and not in the enforce set
ContextWaived ==
    /\ SymUpper(qbuild.asset_symbol) \in qbuild.major
    /\ SymUpper(qbuild.asset_symbol) \notin qbuild.enforce

\* C27: for both adapters the query sent upstream holds the crypto-context
\* block iff the asset is not (in major_assets_without_context and not in
\* enforce_context_assets)
C27_AsClaimed == qbuild.pc = "sent" => (HasContext <=> ~ContextWaived)

\* a finished call on a consent URL whose continue target is a news URL
\* and the GET of that news URL ends on the publisher's host
ConsentToPublisher ==
    /\ resolver.pc = "done" /\ _is_consent(resolver.url)
    /\ ContinueOf(resolver.url) = <<NewsHost>> /\ resolver.final = PublisherHost

\* C28: resolve on a consent URL returns null with consent_missing_continue
\* when continue is absent or empty, and returns the publisher URL when the
\* continue target is a news URL whose GET ends on a publisher host, in
\* every resolver configuration
C28_AsClaimed ==
    /\ (resolver.pc = "done" /\ _is_consent(resolver.url) /\ ContinueOf(resolver.url) = <<>>) =>
           /\ resolver.res = <<>>
           /\ resolver.metrics => resolver.outcomes = <<"consent_missing_continue">>
    /\ ConsentToPublisher => resolver.res = <<Link(PublisherHost, FALSE, "none")>>

\* C28 amended: the publisher URL is returned when no headless strategy is
\* injected and resolve_to_publisher is on; with an injected strategy or
\* with resolve_to_publisher off the decoded continue target itself is
\* returned, tagged returned_news_url
C28_Amended ==
    /\ (resolver.pc = "done" /\ _is_consent(resolver.url) /\ ContinueOf(resolver.url) = <<>>) =>
           /\ resolver.res = <<>>
           /\ resolver.metrics => resolver.outcomes = <<"consent_missing_continue">>
    /\ (/\ resolver.pc = "done" /\ _is_consent(resolver.url) /\ ContinueOf(resolver.url) # <<>>
        /\ (resolver.headless_resolve \/ ~resolver.resolve_to_publisher)) =>
           /\ resolver.res = <<Unquote(ContinueOf(resolver.url)[1])>>
           /\ resolver.metrics => resolver.outcomes = <<"returned_news_url">>
    /\ (ConsentToPublisher /\ ~resolver.headless_resolve /\ resolver.resolve_to_publisher) =>
           /\ resolver.res = <<Link(PublisherHost, FALSE, "none")>>
           /\ resolver.metrics => resolver.outcomes = <<"resolved_publisher">>

\* the default resolver has unwrapped a consent URL to the publisher's URL
C28_Witness ==
    /\ ConsentToPublisher /\ ~resolver.headless_resolve /\ resolver.resolve_to_publisher
    /\ resolver.res = <<Link(PublisherHost, FALSE, "none")>>
    /\ resolver.outcomes = <<"resolved_publisher">>

\* the outcome tags the specification lists
ClaimedTags ==
    {"resolved_publisher", "fallback_news", "headless_resolved", "headless_unavailable",
     "passthrough", "consent_missing_continue", "error"}

\* C29: with a metrics port every call of resolve records exactly one
\* outcome tag, one of the seven listed
C29_AsClaimed ==
    (resolver.pc = "done" /\ resolver.metrics) =>
        Len(resolver.outcomes) = 1 /\ resolver.outcomes[1] \in ClaimedTags

\* C29 amended: a call with a non-empty URL records exactly one tag, one of
\* the seven listed, returned_news_url or headless_failed; a call with an
\* empty URL records none
C29_Amended ==
    (resolver.pc = "done" /\ resolver.metrics) =>
        IF resolver.url.host = "" THEN resolver.outcomes = <<>> /\ resolver.res = <<>>
        ELSE /\ Len(resolver.outcomes) = 1
             /\ resolver.outcomes[1] \in ClaimedTags \cup {"returned_news_url", "headless_failed"}

\* a call that recorded a tag outside the seven: the headless strategy gave
\* nothing for an interstitial
C29_Witness ==
    /\ resolver.pc = "done" /\ resolver.metrics
    /\ _is_google_interstitial(resolver.url)
    /\ resolver.outcomes = <<"headless_failed">>

\* C30: every alpha written to market_factors_daily lies in [0, 1], and
\* computing factors with an alpha outside that range raises instead of
\* persisting it (sentiments are clamped to [-1, 1] before they are stored)
C30_AsClaimed ==
    /\ \A i \in 1..Len(factors.market_factors_daily) :
          /\ factors.market_factors_daily[i].alpha >= 0
          /\ factors.market_factors_daily[i].alpha <= 100
    /\ (factors.pc \in {"done", "raised"} /\ (factors.alpha < 0 \/ factors.alpha > 100)) =>
           factors.pc = "raised" /\ factors.market_factors_daily = <<>>

\* the part of a URL text before its first "?"
PathPart(text) ==
    LET qs == {i \in 1..Len(text) : text[i] = "?"}
    IN  IF qs = {} THEN text
        ELSE [i \in 1..((CHOOSE i \in qs : \A j \in qs : i <= j) - 1) |-> text[i]]

\* the extensions of the claim, in either case
ClaimedExtensions == {".jpg", ".JPG", ".png", ".PNG", ".gif", ".GIF", ".pdf", ".PDF"}

\* C31: is_valid_news_url(u) is true iff u is non-blank, starts with http://
\* or https:// and its path part (the text before "?") does not end, in
\* either case, in .jpg, .png, .gif or .pdf; appending a query string to a URL
\* never changes the verdict
C31_ValidIff ==
    urlcheck.pc = "done" =>
        /\ urlcheck.valid <=>
              /\ \E i \in 1..Len(urlcheck.url) : urlcheck.url[i] # " "
              /\ urlcheck.url[1] \in {"http://", "https://"}
              /\ PathPart(urlcheck.url)[Len(PathPart(urlcheck.url))] \notin ClaimedExtensions
        /\ urlcheck.valid_q = urlcheck.valid

\* an image URL was rejected, and so was the same URL with a query appended
\* whose last piece is not an extension
C31_Witness ==
    /\ urlcheck.pc = "done"
    /\ urlcheck.url = <<"https://", "seg", ".jpg">>
    /\ urlcheck.query = <<"seg">>
    /\ ~urlcheck.valid /\ ~urlcheck.valid_q

\* C32: a candidate gets a Rejection row only if at least one ensemble client
\* returned a vote; when every client call fails, or no client is configured,
\* no Rejection is recorded and the candidate stays in the inbox
C32_AsClaimed ==
    \A i \in 1..Len(batch) :
        (\E k \in 1..Len(trace[i].calls) : trace[i].calls[k].op = "save_rejection")
            => task[i].ai.votes # <<>>

\* C33: a candidate that an earlier, failed adjudication left in the inbox and
\* that a later batch adjudicates without error ends with exactly one row in
\* summarized_articles or rejections, no inbox row, and one llm_votes row per
\* vote of the successful attempt: nothing of the failed attempt is left over
C33_AsClaimed ==
    \A i \in 1..Len(batch) :
        (~run.dry_run /\ trace[i].status = "ok") =>
            /\ Cardinality(InSummarized(batch[i].url, run.asset)) +
                   Cardinality(InRejections(batch[i].url, run.asset)) = 1
            /\ InInbox(batch[i].url, run.asset) = {}
            /\ Cardinality({v \in llm_votes : v.harvest_id = batch[i].id}) =
                   Len(task[i].ai.votes)

\* C34: with process_batch invoked again and again with one limit and no new
\* harvests, every candidate whose own adjudication succeeds is eventually
\* adjudicated and removed from the inbox, even when older candidates fail on
\* every attempt
C34_AsClaimed == <>(\A r \in url_harvests : r.id \in retry.failing)

\* C35: with Harvest and Summarize-Harvest interleaved on one asset, a pair
\* that has a summarized_articles or rejections row is never inserted into
\* url_harvests, so that once the batch has returned no pair is both in the
\* inbox and in summarized_articles or rejections
C35_AsClaimed ==
    pc = "idle" =>
        \A r \in url_harvests :
            /\ InSummarized(r.url, r.asset_symbol) = {}
            /\ InRejections(r.url, r.asset_symbol) = {}

\* a step of the limiter: nobody sleeps before the first return of wait(), and
\* a later return comes at least 0.95 * interval after the one before it
C36_Steps ==
    /\ limiter.returns = 0 =>
           \A w \in DOMAIN limiter'.thread : limiter'.thread[w] # "sleep"
    /\ (limiter.returns >= 1 /\ limiter'.returns = limiter.returns + 1) =>
           20 * (limiter'.last - limiter.last) >= 19 * limiter.interval

\* C36: with any number of threads and under every interleaving, two
\* successive returns of _RateLimiter.wait() are at least 0.95 * interval
\* apart and the first call on a fresh limiter returns without sleeping; hence
\* N calls of a parallel batch take at least (N-1) * 0.95 * interval
C36_MinGap ==
    /\ [][C36_Steps]_vars
    /\ [](limiter.returns >= 2 =>
             20 * (limiter.last - limiter.first) >=
                 19 * (limiter.returns - 1) * limiter.interval)

\* three returns in the shortest time the jitter allows, no caller late
C36_Witness ==
    /\ limiter.returns = 3
    /\ limiter.last - limiter.first = 2 * (limiter.interval - MaxJitter)
    /\ limiter.late = 0

\* C37: when process_batch or process_batch_parallel returns, every candidate
\* of the batch is counted in exactly one of saved, rejected_irrelevant and
\* errors: processed = saved + rejected_irrelevant + errors,
\* processed = deleted + errors and saved + rejected_irrelevant = deleted
C37_AsClaimed ==
    (pc = "idle" /\ run.mode # "none") =>
        /\ cnt.processed = cnt.saved + cnt.rejected_irrelevant + cnt.errors
        /\ cnt.processed = cnt.deleted + cnt.errors
        /\ cnt.saved + cnt.rejected_irrelevant = cnt.deleted

\* C38: at the return of HarvestUrls.run every raw document is counted in
\* exactly one outcome counter: total_docs = saved + skipped_duplicates +
\* rejected_invalid and saved + skipped_duplicates = after_dedupe <=
\* after_assemble <= total_docs, also when save_url_harvest or a call of the
\* domain policy raises
C38_AsClaimed ==
    hrun.pc = "done" =>
        /\ hrun.summary.total_docs = hrun.summary.saved + hrun.summary.skipped_duplicates
                                         + hrun.summary.rejected_invalid
        /\ hrun.summary.saved + hrun.summary.skipped_duplicates = hrun.summary.after_dedupe
        /\ hrun.summary.after_dedupe <= hrun.summary.after_assemble
        /\ hrun.summary.after_assemble <= hrun.summary.total_docs

\* process_batch_parallel has returned, after process_batch on the same inbox
BothReturned == equiv.phase = "par" /\ pc = "idle" /\ run.mode = "par"

\* C39 as claimed: on the same inbox and with the same outcome of every
\* candidate's LLM and persistence calls, process_batch_parallel leaves the
\* same summarized_articles, rejections, llm_votes and url_harvests rows and
\* returns the same counters as process_batch, whatever the completion order
C39_AsClaimed ==
    BothReturned => (StoreRows = equiv.seq.rows /\ cnt = equiv.seq.cnt)

\* C39 amended: the rows are the same up to the ids the database generates
\* (the id of a summary, rejection or vote, and the article_id that refers to
\* a summary), which follow the completion order; the counters are the same
C39_Amended ==
    BothReturned => (StoreContent = equiv.seq.content /\ cnt = equiv.seq.cnt)

\* both candidates saved by both runs, the parallel run in the other order:
\* the same content under other ids
C39_Witness ==
    /\ BothReturned
    /\ cnt.saved = 2 /\ cnt.deleted = 2
    /\ StoreRows # equiv.seq.rows
    /\ StoreContent = equiv.seq.content

\* the columns of a candle that the two rollups are said to share
CandleCore(c) == [day |-> c.day, open |-> c.open, high |-> c.high, low |-> c.low,
                  close |-> c.close, market_cap |-> c.market_cap]

\* C40: for any snapshots of one asset, in whatever order they are supplied,
\* _to_daily_candles yields the same days and, per day, the same open, high,
\* low, close and market_cap as rollup_daily_candles: open and close the price
\* of the chronologically first and last snapshot, high and low the maximum
\* and minimum price, market_cap the last non-null one
C40_AsClaimed ==
    rollup.pc = "ingested" =>
        {CandleCore(rollup.candles[i]) : i \in 1..Len(rollup.candles)} =
            {CandleCore(rollup_daily_candles(rollup.snapshots)[i]) :
                i \in 1..Len(rollup_daily_candles(rollup.snapshots))}

====
